---- MODULE Spec2Model ----
(***************************************************************************)
(* Marketplace chaincode (v0.6): mortgage applications, appraiser          *)
(* applications and sales contracts kept in a key-value ledger, with the   *)
(* party records, the key registries and the audit logs that every create  *)
(* and update maintains.                                                   *)
(*                                                                         *)
(* Representation.  The ledger maps a key (a string) to the bytes stored   *)
(* under it.  Bytes are modelled by their JSON content: Nil is "no bytes", *)
(* Bad is a text that does not parse, [t |-> "obj", ...] is a JSON object  *)
(* with the listed members and [t |-> "arr", a |-> <<...>>] a JSON array.  *)
(* json.Unmarshal into a struct keeps the members the struct declares and  *)
(* gives every other field its zero value; json.Marshal writes exactly the *)
(* struct's fields.  A nil slice and an empty slice are both <<>>.         *)
(* Timestamps (time.Now) are left out of the audit entries.  A text built  *)
(* by concatenation is the sequence of its pieces.                         *)
(*                                                                         *)
(* A call that returns an error leaves in the ledger what it had written   *)
(* before the error: the chaincode undoes nothing itself.                  *)
(***************************************************************************)
EXTENDS Integers, Sequences, FiniteSets, TLC

VARIABLES ledger, last, appended, calls, running

vars == <<ledger, last, appended, calls, running>>

(***************************************************************************)
(* Program constants                                                       *)
(***************************************************************************)
maKeysName == "maKeys"
scKeysName == "scKeys"
aaKeysName == "aaKeys"
maLogKeysName == "maLogKeys"
landKeysName == "landKeys"
propertyKeysName == "propertyKeys"
propertyAdKeysName == "propertyAdKeys"
bcLogsKey == "bcLogsKey"

typeMortgageApplication == "ma:"
typeSalesContract == "sc:"
typeAppraiserApplication == "aa:"
typeProperty == "prop:"
typePropertyAd == "propad:"
typeLand == "land:"
typeBuyer == "buyer:"
typeSeller == "seller:"
typeBank == "bank:"
typeAppraiser == "appraiser:"
typeUser == "user:"
typeAuditor == "auditor:"
typeMALog == "malog:"

BUYER == 1
SELLER == 2
BANK == 3
APPRAISER == 4
AUDITOR == 5
USER == 6
LAND == 7
PROPERTY == 8
PROPERTYAD == 9
MORTGAGEAPPLICATION == 10
SALESCONTRACT == 11
APPRAISERAPPLICATION == 12
MALOG == 13

BUYER_A == 1
SELLER_A == 2
BANK_A == 3
APPRAISER_A == 4
AUDITOR_A == 5

(***************************************************************************)
(* Bounds and input sets                                                   *)
(***************************************************************************)
MaxLog == 3

\* how many calls the dispatch specification follows from deployment
MaxCalls == 3

\* the largest kind code handed to GetStateKey; the kinds are 1..13
MaxKind == 15

\* the document ids in use; the user names in use are u1, u2, u3 and u4
DocIds == {"d1"}

\* The identities (username, role) the certificates in use carry.
Certs ==
  { <<"u1", BUYER_A>>, <<"u2", BANK_A>>, <<"u3", APPRAISER_A>>,
    <<"u3", SELLER_A>>, <<"u3", AUDITOR_A>>, <<"u2", APPRAISER_A>> }

\* The mortgage and appraiser applications in use leave u3 or u2 out; the
\* sales contracts name u1, u2 and u3.  A bank and an auditor that no sales
\* contract names:
Outsiders == { <<"u4", BANK_A>>, <<"u4", AUDITOR_A>> }

\* the callers that read and update sales contracts
SCCallers == Certs \cup Outsiders

(***************************************************************************)
(* Bytes, JSON and strings                                                 *)
(***************************************************************************)
Nil == [t |-> "nil"]
Bad == [t |-> "bad"]

NoErr == "nil"

\* strings.TrimSpace on the strings the model uses
TrimSpace(s) ==
  CASE s = " " -> ""
    [] s = " Approved " -> "Approved"
    [] s = " d1 " -> "d1"
    [] s = " sig " -> "sig"
    [] OTHER -> s

\* strconv.Itoa
Itoa(n) == ToString(n)

\* a member of a JSON object, or the field's zero value when it is missing
Fld(b, name, zero) == IF name \in DOMAIN b THEN b[name] ELSE zero

\* json.Unmarshal fails on empty input and on a text that is no JSON object
ParseFails(b) == b.t # "obj"

(***************************************************************************)
(* The stub: the ledger, the keys written during the current call, the     *)
(* audit entries the call has handed to AppendMALog and the call's writes  *)
(* in the order PutState received them                                     *)
(***************************************************************************)
\* what an operation returns: the stub after it, the error, the value
R(st, err, v) == [st |-> st, err |-> err, v |-> v]

GetState(st, key) == IF key \in DOMAIN st.led THEN st.led[key] ELSE Nil

PutState(st, key, bytes) ==
  [led |-> [k \in DOMAIN st.led \cup {key} |-> IF k = key THEN bytes ELSE st.led[k]],
   wr |-> st.wr \cup {key},
   ap |-> st.ap,
   tr |-> Append(st.tr, <<key, bytes>>)]

\* the stub of a call that starts on the ledger led
StubOn(led) == [led |-> led, wr |-> {}, ap |-> <<>>, tr |-> <<>>]

\* a local variable: v under the name the rest of the function, F, gives it
With(v, F(_)) == F(v)

\* a key scheme in which the property ads share the prefix of the properties
GetStateKeySharedPrefix(id, otype) ==
  IF otype = MORTGAGEAPPLICATION THEN [err |-> NoErr, v |-> typeMortgageApplication \o id]
  ELSE IF otype = SALESCONTRACT THEN [err |-> NoErr, v |-> typeSalesContract \o id]
  ELSE IF otype = APPRAISERAPPLICATION THEN [err |-> NoErr, v |-> typeAppraiserApplication \o id]
  ELSE IF otype = USER THEN [err |-> NoErr, v |-> typeUser \o id]
  ELSE IF otype = BUYER THEN [err |-> NoErr, v |-> typeBuyer \o id]
  ELSE IF otype = SELLER THEN [err |-> NoErr, v |-> typeSeller \o id]
  ELSE IF otype = BANK THEN [err |-> NoErr, v |-> typeBank \o id]
  ELSE IF otype = APPRAISER THEN [err |-> NoErr, v |-> typeAppraiser \o id]
  ELSE IF otype = AUDITOR THEN [err |-> NoErr, v |-> typeAuditor \o id]
  ELSE IF otype = LAND THEN [err |-> NoErr, v |-> typeLand \o id]
  ELSE IF otype = PROPERTY THEN [err |-> NoErr, v |-> typeProperty \o id]
  ELSE IF otype = PROPERTYAD THEN [err |-> NoErr, v |-> typeProperty \o id]
  ELSE IF otype = MALOG THEN [err |-> NoErr, v |-> typeMALog \o id]
  ELSE [err |-> "Invalid type", v |-> ""]

GetStateKey(id, otype) ==
  IF otype = MORTGAGEAPPLICATION THEN [err |-> NoErr, v |-> typeMortgageApplication \o id]
  ELSE IF otype = SALESCONTRACT THEN [err |-> NoErr, v |-> typeSalesContract \o id]
  ELSE IF otype = APPRAISERAPPLICATION THEN [err |-> NoErr, v |-> typeAppraiserApplication \o id]
  ELSE IF otype = USER THEN [err |-> NoErr, v |-> typeUser \o id]
  ELSE IF otype = BUYER THEN [err |-> NoErr, v |-> typeBuyer \o id]
  ELSE IF otype = SELLER THEN [err |-> NoErr, v |-> typeSeller \o id]
  ELSE IF otype = BANK THEN [err |-> NoErr, v |-> typeBank \o id]
  ELSE IF otype = APPRAISER THEN [err |-> NoErr, v |-> typeAppraiser \o id]
  ELSE IF otype = AUDITOR THEN [err |-> NoErr, v |-> typeAuditor \o id]
  ELSE IF otype = LAND THEN [err |-> NoErr, v |-> typeLand \o id]
  ELSE IF otype = PROPERTY THEN [err |-> NoErr, v |-> typeProperty \o id]
  ELSE IF otype = PROPERTYAD THEN [err |-> NoErr, v |-> typePropertyAd \o id]
  ELSE IF otype = MALOG THEN [err |-> NoErr, v |-> typeMALog \o id]
  ELSE [err |-> "Invalid type", v |-> ""]

(***************************************************************************)
(* Structs and their JSON form                                             *)
(***************************************************************************)
UnmarshalMortgageApplication(b) ==
  [ID |-> Fld(b, "id", ""),
   BuyerId |-> Fld(b, "buyerId", ""),
   SalesContractId |-> Fld(b, "salesContractId", ""),
   Status |-> Fld(b, "status", ""),
   RequestedAmount |-> Fld(b, "requestedAmount", 0),
   FairMarketValue |-> Fld(b, "fairMarketValue", 0),
   ApprovedAmount |-> Fld(b, "approvedAmount", 0),
   ReviewerId |-> Fld(b, "reviewerId", "")]

MarshalMortgageApplication(ma) ==
  [t |-> "obj", id |-> ma.ID, buyerId |-> ma.BuyerId,
   salesContractId |-> ma.SalesContractId, status |-> ma.Status,
   requestedAmount |-> ma.RequestedAmount, fairMarketValue |-> ma.FairMarketValue,
   approvedAmount |-> ma.ApprovedAmount, reviewerId |-> ma.ReviewerId]

UnmarshalSalesContract(b) ==
  [ID |-> Fld(b, "id", ""),
   PropertyId |-> Fld(b, "propertyId", ""),
   BuyerId |-> Fld(b, "buyerId", ""),
   SellerId |-> Fld(b, "sellerId", ""),
   ReviewerId |-> Fld(b, "reviewerId", ""),
   BuyerSignature |-> Fld(b, "buyerSignature", ""),
   SellerSignature |-> Fld(b, "sellerSignature", ""),
   Status |-> Fld(b, "status", ""),
   Price |-> Fld(b, "price", 0)]

MarshalSalesContract(sc) ==
  [t |-> "obj", id |-> sc.ID, propertyId |-> sc.PropertyId, buyerId |-> sc.BuyerId,
   sellerId |-> sc.SellerId, reviewerId |-> sc.ReviewerId,
   buyerSignature |-> sc.BuyerSignature, sellerSignature |-> sc.SellerSignature,
   status |-> sc.Status, price |-> sc.Price]

UnmarshalAppraiserApplication(b) ==
  [ID |-> Fld(b, "id", ""),
   MortgageApplicationId |-> Fld(b, "mortgageApplicationId", ""),
   AppraiserId |-> Fld(b, "appraiserId", ""),
   ReviewerId |-> Fld(b, "reviewerId", ""),
   PropertyId |-> Fld(b, "propertyId", ""),
   Status |-> Fld(b, "status", ""),
   FairMarketValue |-> Fld(b, "fairMarketValue", 0)]

MarshalAppraiserApplication(aa) ==
  [t |-> "obj", id |-> aa.ID, mortgageApplicationId |-> aa.MortgageApplicationId,
   appraiserId |-> aa.AppraiserId, reviewerId |-> aa.ReviewerId,
   propertyId |-> aa.PropertyId, status |-> aa.Status,
   fairMarketValue |-> aa.FairMarketValue]

UnmarshalBuyer(b) ==
  [ID |-> Fld(b, "id", ""), Affiliation |-> Fld(b, "affiliation", 0),
   MortgageApplications |-> Fld(b, "mortgageApplications", <<>>),
   SalesContracts |-> Fld(b, "salesContracts", <<>>)]

MarshalBuyer(u) ==
  [t |-> "obj", id |-> u.ID, affiliation |-> u.Affiliation,
   mortgageApplications |-> u.MortgageApplications, salesContracts |-> u.SalesContracts]

UnmarshalBank(b) ==
  [ID |-> Fld(b, "id", ""), Affiliation |-> Fld(b, "affiliation", 0),
   MortgageApplications |-> Fld(b, "mortgageApplications", <<>>),
   SalesContracts |-> Fld(b, "salesContracts", <<>>)]

MarshalBank(u) ==
  [t |-> "obj", id |-> u.ID, affiliation |-> u.Affiliation,
   mortgageApplications |-> u.MortgageApplications, salesContracts |-> u.SalesContracts]

UnmarshalSeller(b) ==
  [ID |-> Fld(b, "id", ""), Affiliation |-> Fld(b, "affiliation", 0),
   SalesContracts |-> Fld(b, "salesContracts", <<>>)]

MarshalSeller(u) ==
  [t |-> "obj", id |-> u.ID, affiliation |-> u.Affiliation,
   salesContracts |-> u.SalesContracts]

UnmarshalAppraiser(b) ==
  [ID |-> Fld(b, "id", ""), Affiliation |-> Fld(b, "affiliation", 0),
   AppraiserApplications |-> Fld(b, "appraiserApplications", <<>>)]

MarshalAppraiser(u) ==
  [t |-> "obj", id |-> u.ID, affiliation |-> u.Affiliation,
   appraiserApplications |-> u.AppraiserApplications]

UnmarshalAuditor(b) ==
  [ID |-> Fld(b, "id", ""), Affiliation |-> Fld(b, "affiliation", 0)]

MarshalAuditor(u) ==
  [t |-> "obj", id |-> u.ID, affiliation |-> u.Affiliation]

UnmarshalMAUpdateSchema(b) ==
  [Status |-> Fld(b, "status", ""),
   SalesContractId |-> Fld(b, "salesContractId", ""),
   FairMarketValue |-> Fld(b, "fairMarketValue", 0),
   ApprovedAmount |-> Fld(b, "approvedAmount", 0)]

UnmarshalAAUpdateSchema(b) ==
  [Status |-> Fld(b, "status", ""),
   FairMarketValue |-> Fld(b, "fairMarketValue", 0)]

UnmarshalSCUpdateSchema(b) ==
  [Status |-> Fld(b, "status", ""),
   BuyerSignature |-> Fld(b, "buyerSignature", ""),
   SellerSignature |-> Fld(b, "sellerSignature", ""),
   Price |-> Fld(b, "price", 0)]

UnmarshalMALogHolder(b) == [MALogs |-> Fld(b, "MALogs", <<>>)]

MarshalMALogHolder(lh) == [t |-> "obj", MALogs |-> lh.MALogs]

\* a JSON array of strings or of log entries
UnmarshalList(b) == IF b.t = "arr" THEN b.a ELSE <<>>

MarshalList(a) == [t |-> "arr", a |-> a]

(***************************************************************************)
(* Party records: read the record under the key, or create it              *)
(***************************************************************************)
GetBuyer(st, id) ==
  LET bytes == GetState(st, id) IN
  IF bytes = Nil
    THEN LET buyer == [ID |-> id, Affiliation |-> BUYER_A,
                       MortgageApplications |-> <<>>, SalesContracts |-> <<>>]
         IN R(PutState(st, id, MarshalBuyer(buyer)), NoErr, buyer)
    ELSE IF ParseFails(bytes)
      THEN R(st, "GetBuyer: Could not unmarshal buyer", UnmarshalBuyer(Nil))
      ELSE R(st, NoErr, UnmarshalBuyer(bytes))

SaveBuyer(st, buyer, id) == R(PutState(st, id, MarshalBuyer(buyer)), NoErr, Nil)

GetBank(st, id) ==
  LET bytes == GetState(st, id) IN
  IF bytes = Nil
    THEN LET bank == [ID |-> id, Affiliation |-> BANK_A,
                      MortgageApplications |-> <<>>, SalesContracts |-> <<>>]
         IN R(PutState(st, id, MarshalBank(bank)), NoErr, bank)
    ELSE IF ParseFails(bytes)
      THEN R(st, "GetBank: Could not unmarshal bank", UnmarshalBank(Nil))
      ELSE R(st, NoErr, UnmarshalBank(bytes))

\* a variant of SaveBank that keeps only the newest id of the list
SaveBankNewestOnly(st, bank, id) ==
  R(PutState(st, id,
             MarshalBank([bank EXCEPT !.SalesContracts =
                            IF @ = <<>> THEN @ ELSE <<@[Len(@)]>>])),
    NoErr, Nil)

SaveBank(st, bank, id) == R(PutState(st, id, MarshalBank(bank)), NoErr, Nil)

GetAppraiser(st, id) ==
  LET bytes == GetState(st, id) IN
  IF bytes = Nil
    THEN LET appraiser == [ID |-> id, Affiliation |-> APPRAISER_A,
                           AppraiserApplications |-> <<>>]
         IN R(PutState(st, id, MarshalAppraiser(appraiser)), NoErr, appraiser)
    ELSE IF ParseFails(bytes)
      THEN R(st, "GetAppraiser: Could not unmarshal appraiser", UnmarshalAppraiser(Nil))
      ELSE R(st, NoErr, UnmarshalAppraiser(bytes))

SaveAppraiser(st, appraiser, id) ==
  R(PutState(st, id, MarshalAppraiser(appraiser)), NoErr, Nil)

\* a variant of GetSeller that stores a fresh record whatever is stored
GetSellerFresh(st, id) ==
  LET seller == [ID |-> id, Affiliation |-> SELLER_A, SalesContracts |-> <<>>]
  IN R(PutState(st, id, MarshalSeller(seller)), NoErr, seller)

GetSeller(st, id) ==
  LET bytes == GetState(st, id) IN
  IF bytes = Nil
    THEN LET seller == [ID |-> id, Affiliation |-> SELLER_A, SalesContracts |-> <<>>]
         IN R(PutState(st, id, MarshalSeller(seller)), NoErr, seller)
    ELSE IF ParseFails(bytes)
      THEN R(st, "GetSeller: Could not unmarshal seller", UnmarshalSeller(Nil))
      ELSE R(st, NoErr, UnmarshalSeller(bytes))

\* a variant of SaveSeller that stores nothing
SaveSellerSkipped(st, seller, id) == R(st, NoErr, Nil)

\* a variant of SaveSeller that keeps only the newest id of the list
SaveSellerNewestOnly(st, seller, id) ==
  R(PutState(st, id,
             MarshalSeller([seller EXCEPT !.SalesContracts =
                              IF @ = <<>> THEN @ ELSE <<@[Len(@)]>>])),
    NoErr, Nil)

SaveSeller(st, seller, id) == R(PutState(st, id, MarshalSeller(seller)), NoErr, Nil)

GetAuditor(st, id) ==
  LET bytes == GetState(st, id) IN
  IF bytes = Nil
    THEN LET auditor == [ID |-> id, Affiliation |-> AUDITOR_A]
         IN R(PutState(st, id, MarshalAuditor(auditor)), NoErr, auditor)
    ELSE IF ParseFails(bytes)
      THEN R(st, "GetAuditor: Could not unmarshal auditor", UnmarshalAuditor(Nil))
      ELSE R(st, NoErr, UnmarshalAuditor(bytes))

(***************************************************************************)
(* Registries                                                              *)
(***************************************************************************)
\* reads the list stored under keysName and stores the extended list under
\* maKeysName
AddKey(st, id, keysName) ==
  LET maKeysBytes == GetState(st, keysName) IN
  IF maKeysBytes # Nil /\ maKeysBytes.t # "arr"
    THEN R(st, "AddKey: Error unmarshalling keys", FALSE)
    ELSE LET maKeys == Append(UnmarshalList(maKeysBytes), id)
         IN R(PutState(st, maKeysName, MarshalList(maKeys)), NoErr, TRUE)

(***************************************************************************)
(* Audit log                                                               *)
(***************************************************************************)
\* a variant of GetMALogHolder that starts from an empty holder whatever is
\* stored
GetMALogHolderFresh(st, id) ==
  R(PutState(st, id, MarshalMALogHolder([MALogs |-> <<>>])), NoErr, [MALogs |-> <<>>])

GetMALogHolder(st, id) ==
  LET bytes == GetState(st, id) IN
  IF bytes = Nil
    THEN LET lh == [MALogs |-> <<>>]
         IN R(PutState(st, id, MarshalMALogHolder(lh)), NoErr, lh)
    ELSE IF ParseFails(bytes)
      THEN R(st, "GetMALogHolder: Could not unmarshal", UnmarshalMALogHolder(Nil))
      ELSE R(st, NoErr, UnmarshalMALogHolder(bytes))

SaveMALogHolder(st, lh, id) == R(PutState(st, id, MarshalMALogHolder(lh)), NoErr, Nil)

GetBCLogs(st) ==
  LET bytes == GetState(st, bcLogsKey) IN
  IF bytes = Nil THEN R(st, NoErr, <<>>)
  ELSE IF bytes.t # "arr" THEN R(st, "GetBCLogs: Could not unmarshal logs", <<>>)
  ELSE R(st, NoErr, UnmarshalList(bytes))

\* a variant of SaveBCLogs that keeps the newest entry only
SaveBCLogsNewest(st, logs) ==
  R(PutState(st, bcLogsKey, MarshalList(<<logs[Len(logs)]>>)), NoErr, Nil)

SaveBCLogs(st, logs) == R(PutState(st, bcLogsKey, MarshalList(logs)), NoErr, Nil)

GetMALogKeys(st) ==
  LET bytes == GetState(st, maLogKeysName) IN
  IF bytes = Nil THEN R(st, NoErr, <<>>)
  ELSE IF bytes.t # "arr" THEN R(st, "GetMALogKeys: Could not unmarshal logs", <<>>)
  ELSE R(st, NoErr, UnmarshalList(bytes))

SaveMALogKeys(st, keys) == R(PutState(st, maLogKeysName, MarshalList(keys)), NoErr, Nil)

AppendMALog(st, action, text, status, id) ==
  LET key == GetStateKey(id, MALOG).v
      log == [MortgageApplicationId |-> id, BuyerId |-> "", ReviewerId |-> "",
              Status |-> status, Action |-> action, Text |-> text]
  IN With(GetMALogHolder([st EXCEPT !.ap = Append(@, log)], key), LAMBDA g :
     With(SaveMALogHolder(g.st, [MALogs |-> Append(g.v.MALogs, log)], key), LAMBDA s1 :
       IF s1.err # NoErr THEN R(s1.st, s1.err, Nil) ELSE
     With(GetMALogKeys(s1.st), LAMBDA k :
       IF k.err # NoErr THEN R(k.st, k.err, Nil) ELSE
     With(SaveMALogKeys(k.st, Append(k.v, key)), LAMBDA s2 :
     With(GetBCLogs(s2.st), LAMBDA b :
       IF b.err # NoErr THEN R(s2.st, b.err, Nil) ELSE
     With(SaveBCLogs(b.st, Append(b.v, log)), LAMBDA s3 :
       R(s3.st, NoErr, Nil)))))))

(***************************************************************************)
(* Mortgage applications                                                   *)
(***************************************************************************)
CreateMortgageApplication(st, callerId, callerAffiliation, args) ==
  IF Len(args) < 2
    THEN R(st, "Could not create MortgageApplication. Invalid input", Nil)
    ELSE
      LET mortgageApplicationId == args[1]
          mortgageApplicationInput == args[2]
          maKey == GetStateKey(mortgageApplicationId, MORTGAGEAPPLICATION).v
          bankId == UnmarshalMortgageApplication(mortgageApplicationInput).ReviewerId
          userKey == GetStateKey(callerId, USER).v
          bankKey == GetStateKey(bankId, USER).v
      IN IF ParseFails(mortgageApplicationInput)
           THEN R(st, "CreateMortgageApplication: Could not unmarshal", Nil)
           ELSE
             With(AddKey(PutState(st, maKey, mortgageApplicationInput), maKey, maKeysName),
                  LAMBDA ak :
               IF ak.err # NoErr THEN R(ak.st, ak.err, Nil) ELSE
             With(GetBuyer(ak.st, userKey), LAMBDA user :
             With(SaveBuyer(user.st,
                            [user.v EXCEPT !.MortgageApplications =
                               Append(@, mortgageApplicationId)],
                            userKey), LAMBDA s2 :
             With(GetBank(s2.st, bankKey), LAMBDA bank :
             With(SaveBank(bank.st,
                           [bank.v EXCEPT !.MortgageApplications =
                              Append(@, mortgageApplicationId)],
                           bankKey), LAMBDA s3 :
             With(AppendMALog(s3.st, "CreateMortgageApplication",
                              <<callerId, " Submitted new MortgageApplication">>,
                              "Submitted", mortgageApplicationId), LAMBDA s4 :
               R(s4.st, NoErr, Nil)))))))

\* a reading rule that admits every caller
MAReadAllowedAnyone(callerId, callerAffiliation, ma) == TRUE

\* who may read a mortgage application
MAReadAllowed(callerId, callerAffiliation, ma) ==
  callerId = ma.BuyerId \/ callerId = ma.ReviewerId \/ callerAffiliation = AUDITOR_A

\* a reader that hands back the parsed application encoded anew
GetMortgageApplicationReencoded(st, callerId, callerAffiliation, args) ==
  IF Len(args) < 1
    THEN R(st, "Could not create MortgageApplication. Invalid input",
           [ma |-> UnmarshalMortgageApplication(Nil), bytes |-> Nil])
    ELSE
      With(GetState(st, GetStateKey(args[1], MORTGAGEAPPLICATION).v), LAMBDA bytes :
      With(UnmarshalMortgageApplication(bytes), LAMBDA ma :
        IF ParseFails(bytes)
          THEN R(st, "GetMortgageApplication: Could not unmarshal",
                 [ma |-> ma, bytes |-> Nil])
          ELSE IF MAReadAllowed(callerId, callerAffiliation, ma)
            THEN R(st, NoErr, [ma |-> ma, bytes |-> MarshalMortgageApplication(ma)])
            ELSE R(st, "does not have rights to access mortgageApplication",
                   [ma |-> ma, bytes |-> Nil])))

\* a variant of GetMortgageApplication that takes a key with no value for a
\* zero-valued application
GetMortgageApplicationZeroValued(st, callerId, callerAffiliation, args) ==
  IF Len(args) < 1
    THEN R(st, "Could not create MortgageApplication. Invalid input",
           [ma |-> UnmarshalMortgageApplication(Nil), bytes |-> Nil])
    ELSE
      With(GetState(st, GetStateKey(args[1], MORTGAGEAPPLICATION).v), LAMBDA bytes :
      With(UnmarshalMortgageApplication(bytes), LAMBDA ma :
        IF bytes # Nil /\ ParseFails(bytes)
          THEN R(st, "GetMortgageApplication: Could not unmarshal",
                 [ma |-> ma, bytes |-> Nil])
          ELSE IF MAReadAllowed(callerId, callerAffiliation, ma)
            THEN R(st, NoErr, [ma |-> ma, bytes |-> bytes])
            ELSE R(st, "does not have rights to access mortgageApplication",
                   [ma |-> ma, bytes |-> Nil])))

\* the value is the pair the function returns: the struct and the bytes
GetMortgageApplication(st, callerId, callerAffiliation, args) ==
  IF Len(args) < 1
    THEN R(st, "Could not create MortgageApplication. Invalid input",
           [ma |-> UnmarshalMortgageApplication(Nil), bytes |-> Nil])
    ELSE
      LET maId == args[1]
          maKey == GetStateKey(maId, MORTGAGEAPPLICATION).v
      IN With(GetState(st, maKey), LAMBDA bytes :
         With(UnmarshalMortgageApplication(bytes), LAMBDA ma :
           IF ParseFails(bytes)
             THEN R(st, "GetMortgageApplication: Could not unmarshal",
                    [ma |-> ma, bytes |-> Nil])
             ELSE IF MAReadAllowed(callerId, callerAffiliation, ma)
               THEN R(st, NoErr, [ma |-> ma, bytes |-> bytes])
               ELSE R(st, "does not have rights to access mortgageApplication",
                      [ma |-> ma, bytes |-> Nil])))

SaveMortgageApplication(st, ma, id) ==
  LET bytes == MarshalMortgageApplication(ma)
      maKey == GetStateKey(id, MORTGAGEAPPLICATION).v
  IN R(PutState(st, maKey, bytes), NoErr, bytes)

\* a rule that applies every incoming number
AnyNumber(n) == TRUE

\* an incoming number is applied when it is not zero
NonZero(n) == n # 0

\* an incoming string is applied when it is not empty after trimming
NonEmpty(s) == s # ""

\* a rule that saves the reviewer's update always
MAAlwaysChanged(statusChanged, scIdChanged, amChanged) == TRUE

\* the reviewer's update is saved when one of the three fields changed
MAAnyChanged(statusChanged, scIdChanged, amChanged) ==
  statusChanged \/ scIdChanged \/ amChanged

\* a text of the status change that leaves the old status out
MAStatusMsgNewOnly(callerId, currentStatus, status) ==
  <<callerId, " changed status to ", status>>

\* the text of the status change
MAStatusMsg(callerId, currentStatus, status) ==
  <<callerId, " changed status from ", currentStatus, " to ", status>>

\* a rule that takes every caller who is not the reviewer for an appraiser
IsAnyCaller(callerAffiliation) == TRUE

\* the branch of a caller who is not the reviewer
IsAppraiserCaller(callerAffiliation) == callerAffiliation = APPRAISER_A

\* the reviewer's branch: the fields the payload sets are applied in the
\* order status, salesContractId, approvedAmount, and the message grows by
\* one sentence for each
UpdateMortgageApplicationByReviewer(st, callerId, id, ma, updates) ==
  LET status == TrimSpace(updates.Status)
      statusChanged == NonEmpty(status)
      salesContractId == TrimSpace(updates.SalesContractId)
      scIdChanged == NonEmpty(salesContractId)
      approvedAmount == updates.ApprovedAmount
      amChanged == NonZero(approvedAmount)
      msg ==
        (IF statusChanged THEN MAStatusMsg(callerId, ma.Status, status) ELSE <<>>)
        \o (IF ~scIdChanged THEN <<>>
            ELSE IF statusChanged
              THEN <<"and updated sales contract Id to ", salesContractId, ".">>
              ELSE <<callerId, " updated sales contract Id to ", salesContractId, ".">>)
        \o (IF ~amChanged THEN <<>>
            ELSE IF statusChanged \/ scIdChanged
              THEN <<"and updated approved amount to ", Itoa(approvedAmount), ".">>
              ELSE <<callerId, " updated approved amount to ", Itoa(approvedAmount), ".">>)
      updated ==
        [ma EXCEPT !.Status = IF statusChanged THEN status ELSE @,
                   !.SalesContractId = IF scIdChanged THEN salesContractId ELSE @,
                   !.ApprovedAmount = IF amChanged THEN approvedAmount ELSE @]
  IN IF MAAnyChanged(statusChanged, scIdChanged, amChanged)
       THEN With(SaveMortgageApplication(st, updated, id), LAMBDA sv :
            With(AppendMALog(sv.st, "UpdateMortgageApplication", msg, updated.Status, id),
                 LAMBDA lg : R(lg.st, NoErr, sv.v)))
       ELSE R(st, NoErr, Nil)

\* the Appraiser's branch
UpdateMortgageApplicationByAppraiser(st, id, ma, updates) ==
  LET fairMarketValue == updates.FairMarketValue IN
  IF NonZero(fairMarketValue)
    THEN With(SaveMortgageApplication(st, [ma EXCEPT !.FairMarketValue = fairMarketValue], id),
              LAMBDA sv :
         With(AppendMALog(sv.st, "UpdateMortgageApplication", <<>>, ma.Status, id),
              LAMBDA lg : R(lg.st, NoErr, sv.v)))
    ELSE R(st, NoErr, Nil)

UpdateMortgageApplication(st, callerId, callerAffiliation, args) ==
  IF Len(args) < 2
    THEN R(st, "Could not update mortgageApplication. No parameters provided for update", Nil)
    ELSE
      With(GetMortgageApplication(st, callerId, AUDITOR_A, <<args[1]>>), LAMBDA g :
        IF g.err # NoErr THEN R(g.st, g.err, Nil)
        ELSE IF ParseFails(args[2])
          THEN R(g.st, "UpdateMortgageApplication: Could not unmarshal updates", Nil)
        ELSE IF callerId = g.v.ma.ReviewerId
          THEN UpdateMortgageApplicationByReviewer(g.st, callerId, args[1], g.v.ma,
                                                   UnmarshalMAUpdateSchema(args[2]))
        ELSE IF IsAppraiserCaller(callerAffiliation)
          THEN UpdateMortgageApplicationByAppraiser(g.st, args[1], g.v.ma,
                                                    UnmarshalMAUpdateSchema(args[2]))
        ELSE R(g.st, "does not have rights to update the mortgage application", Nil))

(***************************************************************************)
(* Appraiser applications                                                  *)
(***************************************************************************)
\* a variant of the check below that lets every role create
AACreateAllowedAnyRole(callerAffiliation) == TRUE

\* banks create appraiser applications
AACreateAllowed(callerAffiliation) == callerAffiliation = BANK_A

CreateAppraiserApplication(st, callerId, callerAffiliation, args) ==
  IF Len(args) < 2
    THEN R(st, "Could not create CreateAppraiserApplication. Invalid input", Nil)
  ELSE IF ~AACreateAllowed(callerAffiliation)
    THEN R(st, "is not allowed to create appraiser application", Nil)
  ELSE
    LET appraiserApplicationId == args[1]
        appraiserApplicationInput == args[2]
        maKey == GetStateKey(appraiserApplicationId, APPRAISERAPPLICATION).v
        aa == UnmarshalAppraiserApplication(appraiserApplicationInput)
        userKey == GetStateKey(aa.AppraiserId, USER).v
    IN With(PutState(st, maKey, appraiserApplicationInput), LAMBDA s1 :
         IF ParseFails(appraiserApplicationInput)
           THEN R(s1, "CreateAppraiserApplication: Could not unmarshal", Nil)
           ELSE
       With(AddKey(s1, maKey, aaKeysName), LAMBDA ak :
         IF ak.err # NoErr THEN R(ak.st, ak.err, Nil) ELSE
       With(GetAppraiser(ak.st, userKey), LAMBDA user :
       With(SaveAppraiser(user.st,
                          [user.v EXCEPT !.AppraiserApplications =
                             Append(@, appraiserApplicationId)],
                          userKey), LAMBDA s2 :
       With(AppendMALog(s2.st, "CreateAppraiserApplication",
                        <<callerId, " Submitted new AppraiserApplication">>,
                        "Submitted", appraiserApplicationId), LAMBDA s3 :
         R(s3.st, NoErr, Nil))))))

AAReadAllowed(callerId, callerAffiliation, ma) ==
  callerId = ma.AppraiserId \/ callerId = ma.ReviewerId \/ callerAffiliation = AUDITOR_A

GetAppraiserApplication(st, callerId, callerAffiliation, args) ==
  IF Len(args) < 1
    THEN R(st, "Could not GetAppraiserApplication. Invalid input",
           [ma |-> UnmarshalAppraiserApplication(Nil), bytes |-> Nil])
    ELSE
      LET maId == args[1]
          maKey == GetStateKey(maId, APPRAISERAPPLICATION).v
      IN With(GetState(st, maKey), LAMBDA bytes :
         With(UnmarshalAppraiserApplication(bytes), LAMBDA ma :
           IF ParseFails(bytes)
             THEN R(st, "GetAppraiserApplication: Could not unmarshal",
                    [ma |-> ma, bytes |-> Nil])
             ELSE IF AAReadAllowed(callerId, callerAffiliation, ma)
               THEN R(st, NoErr, [ma |-> ma, bytes |-> bytes])
               ELSE R(st, "does not have rights to access appraiserApplication",
                      [ma |-> ma, bytes |-> Nil])))

\* a variant of SaveAppraiserApplication that stores the application under
\* the id of the saved key as its reviewer
SaveAppraiserApplicationReassigned(st, ma, id) ==
  R(PutState(st, GetStateKey(id, APPRAISERAPPLICATION).v,
             MarshalAppraiserApplication([ma EXCEPT !.ReviewerId = id])),
    NoErr, MarshalAppraiserApplication([ma EXCEPT !.ReviewerId = id]))

SaveAppraiserApplication(st, ma, id) ==
  LET bytes == MarshalAppraiserApplication(ma)
      aaKey == GetStateKey(id, APPRAISERAPPLICATION).v
  IN R(PutState(st, aaKey, bytes), NoErr, bytes)

\* the assigned appraiser's branch: the application is saved, the value is
\* handed to the mortgage application's update, and the entry is logged
UpdateAppraiserApplicationByAppraiser(st, callerId, callerAffiliation, id, ma, updates) ==
  LET status == TrimSpace(updates.Status)
      statusChanged == NonEmpty(status)
      currentStatus == IF statusChanged THEN ma.Status ELSE ""
      fairMarketValue == updates.FairMarketValue
      mvChanged == NonZero(fairMarketValue)
      fmvStr == IF mvChanged THEN Itoa(fairMarketValue) ELSE ""
      updated ==
        [ma EXCEPT !.Status = IF statusChanged THEN status ELSE @,
                   !.FairMarketValue = IF mvChanged THEN fairMarketValue ELSE @]
      msg == IF statusChanged /\ mvChanged
               THEN <<callerId, " changed status from ", currentStatus,
                      " to ", status, " and updated fair market value: ", fmvStr>>
             ELSE IF statusChanged /\ ~mvChanged
               THEN <<callerId, " changed status from ", currentStatus, " to ", status>>
             ELSE IF ~statusChanged /\ mvChanged
               THEN <<callerId, " updated fair market value: ", fmvStr>>
             ELSE <<>>
  IN With(SaveAppraiserApplication(st, updated, id), LAMBDA sv :
     With(UpdateMortgageApplication(sv.st, callerId, callerAffiliation,
            <<ma.MortgageApplicationId,
              [t |-> "obj", fairMarketValue |-> fairMarketValue]>>), LAMBDA um :
       IF um.err # NoErr THEN R(um.st, um.err, Nil) ELSE
     With(AppendMALog(um.st, "UpdateAppraiserApplication", msg, status, id), LAMBDA lg :
       R(lg.st, NoErr, um.v))))

UpdateAppraiserApplication(st, callerId, callerAffiliation, args) ==
  IF Len(args) < 2
    THEN R(st, "Could not update appraiserApplication. No parameters provided for update", Nil)
    ELSE
      With(GetAppraiserApplication(st, callerId, callerAffiliation, <<args[1]>>), LAMBDA g :
        IF g.err # NoErr THEN R(g.st, g.err, Nil)
        ELSE IF callerId = g.v.ma.AppraiserId
          THEN
            IF ParseFails(args[2])
              THEN R(g.st, "UpdateAppraiserApplication: Could not unmarshal updates", Nil)
              ELSE UpdateAppraiserApplicationByAppraiser(
                     g.st, callerId, callerAffiliation, args[1], g.v.ma,
                     UnmarshalAAUpdateSchema(args[2]))
          ELSE R(g.st, "does not have rights to update the appraiser application", Nil))

(***************************************************************************)
(* Sales contracts                                                         *)
(***************************************************************************)
\* buyers create sales contracts
SCCreateAllowed(callerAffiliation) == callerAffiliation = BUYER_A

CreateSalesContract(st, callerId, callerAffiliation, args) ==
  IF Len(args) < 2
    THEN R(st, "Could not create CreateSalesContract. Invalid input", Nil)
  ELSE IF ~SCCreateAllowed(callerAffiliation)
    THEN R(st, "is not allowed to create seller contract", Nil)
  ELSE
    LET salesContractId == args[1]
        salesContractInput == args[2]
        maKey == GetStateKey(salesContractId, SALESCONTRACT).v
        sc == UnmarshalSalesContract(salesContractInput)
        sellerId == sc.SellerId
        bankId == sc.ReviewerId
        userKey == GetStateKey(sellerId, USER).v
        buyerKey == GetStateKey(callerId, USER).v
        bankKey == GetStateKey(bankId, USER).v
    IN IF ParseFails(salesContractInput)
         THEN R(st, "CreateSalesContract: Could not unmarshal salesContractInput", Nil)
         ELSE
           With(AddKey(PutState(st, maKey, salesContractInput), maKey, scKeysName),
                LAMBDA ak :
             IF ak.err # NoErr THEN R(ak.st, ak.err, Nil) ELSE
           With(GetSeller(ak.st, userKey), LAMBDA user :
           With(SaveSeller(user.st,
                           [user.v EXCEPT !.SalesContracts = Append(@, salesContractId)],
                           userKey), LAMBDA s2 :
           With(GetBuyer(s2.st, buyerKey), LAMBDA buyer :
           With(SaveBuyer(buyer.st,
                          [buyer.v EXCEPT !.SalesContracts = Append(@, salesContractId)],
                          buyerKey), LAMBDA s3 :
           With(GetBank(s3.st, bankKey), LAMBDA bank :
           With(SaveBank(bank.st,
                         [bank.v EXCEPT !.SalesContracts = Append(@, salesContractId)],
                         bankKey), LAMBDA s4 :
           With(AppendMALog(s4.st, "CreateSalesContract",
                            <<callerId, " Submitted new SalesContract">>,
                            "Submitted", salesContractId), LAMBDA s5 :
             R(s5.st, NoErr, Nil)))))))))

SCReadAllowed(callerId, callerAffiliation, ma) ==
  \/ callerId = ma.SellerId
  \/ callerId = ma.BuyerId
  \/ callerAffiliation = AUDITOR_A
  \/ callerAffiliation = BANK_A

GetSalesContract(st, callerId, callerAffiliation, args) ==
  IF Len(args) < 1
    THEN R(st, "Could not GetSalesContract. Invalid input",
           [ma |-> UnmarshalSalesContract(Nil), bytes |-> Nil])
    ELSE
      LET maId == args[1]
          maKey == GetStateKey(maId, SALESCONTRACT).v
      IN With(GetState(st, maKey), LAMBDA bytes :
         With(UnmarshalSalesContract(bytes), LAMBDA ma :
           IF ParseFails(bytes)
             THEN R(st, "GetSalesContract: Could not unmarshal", [ma |-> ma, bytes |-> Nil])
             ELSE IF SCReadAllowed(callerId, callerAffiliation, ma)
               THEN R(st, NoErr, [ma |-> ma, bytes |-> bytes])
               ELSE R(st, "does not have rights to access salesContract",
                      [ma |-> ma, bytes |-> Nil])))

SaveSalesContract(st, ma, id) ==
  LET bytes == MarshalSalesContract(ma)
      scKey == GetStateKey(id, SALESCONTRACT).v
  IN R(PutState(st, scKey, bytes), NoErr, bytes)

\* msg += " " + log, for each log in order
RECURSIVE JoinLogs(_)
JoinLogs(logs) ==
  IF logs = <<>> THEN <<>> ELSE <<" ">> \o Head(logs) \o JoinLogs(Tail(logs))

\* the buyer's or seller's branch: every field the payload sets is applied
\* and logged, then the contract is saved and the entry appended
UpdateSalesContractByParty(st, id, ma, updates) ==
  LET status == TrimSpace(updates.Status)
      bs == TrimSpace(updates.BuyerSignature)
      ss == TrimSpace(updates.SellerSignature)
      price == updates.Price
      logs ==
        (IF NonEmpty(status)
           THEN << <<"changed status from ", ma.Status, " to ", status>> >> ELSE <<>>)
        \o (IF NonEmpty(bs)
              THEN << <<"Buyer: ", ma.BuyerId, " Signed">> >> ELSE <<>>)
        \o (IF NonEmpty(ss)
              THEN << <<"Seller: ", ma.SellerId, " Signed">> >> ELSE <<>>)
        \o (IF NonZero(price)
              THEN << <<"Price updated to: ", Itoa(price)>> >> ELSE <<>>)
      updated ==
        [ma EXCEPT !.Status = IF NonEmpty(status) THEN status ELSE @,
                   !.BuyerSignature = IF NonEmpty(bs) THEN bs ELSE @,
                   !.SellerSignature = IF NonEmpty(ss) THEN ss ELSE @,
                   !.Price = IF NonZero(price) THEN price ELSE @]
  IN With(SaveSalesContract(st, updated, id), LAMBDA sv :
     With(AppendMALog(sv.st, "UpdateSalesContract", JoinLogs(logs), status, id), LAMBDA lg :
       R(lg.st, NoErr, sv.v)))

\* a variant of the check below that lets every caller update
SCUpdateAllowedAnyone(callerId, ma) == TRUE

\* the contract's seller and its buyer update it
SCUpdateAllowed(callerId, ma) == callerId = ma.SellerId \/ callerId = ma.BuyerId

UpdateSalesContract(st, callerId, callerAffiliation, args) ==
  IF Len(args) < 2
    THEN R(st, "Could not update salesContract. No parameters provided for update", Nil)
    ELSE
      With(GetSalesContract(st, callerId, callerAffiliation, <<args[1]>>), LAMBDA g :
        IF g.err # NoErr THEN R(g.st, g.err, Nil)
        ELSE IF SCUpdateAllowed(callerId, g.v.ma)
          THEN
            IF ParseFails(args[2])
              THEN R(g.st, "UpdateSalesContract: Could not unmarshal updates", Nil)
              ELSE UpdateSalesContractByParty(g.st, args[1], g.v.ma,
                                              UnmarshalSCUpdateSchema(args[2]))
          ELSE R(g.st, "does not have rights to update the seller application", Nil))

(***************************************************************************)
(* Users and the auditor's queries                                         *)
(***************************************************************************)
\* strconv.Atoi on the strings the model uses
Atoi(s) ==
  CASE s = "0" -> [err |-> NoErr, v |-> 0]
    [] s = "1" -> [err |-> NoErr, v |-> 1]
    [] s = "2" -> [err |-> NoErr, v |-> 2]
    [] s = "3" -> [err |-> NoErr, v |-> 3]
    [] s = "4" -> [err |-> NoErr, v |-> 4]
    [] s = "5" -> [err |-> NoErr, v |-> 5]
    [] s = "9" -> [err |-> NoErr, v |-> 9]
    [] s = "-1" -> [err |-> NoErr, v |-> -1]
    [] OTHER -> [err |-> "strconv.Atoi: invalid syntax", v |-> 0]

\* the result of creating the party record: the id, or the error
CreateUserResult(g, id) ==
  IF g.err # NoErr THEN R(g.st, g.err, Nil) ELSE R(g.st, NoErr, id)

CreateUser(st, args) ==
  IF Len(args) < 2
    THEN R(st, "Did not recieve enough parameters for creating a user", Nil)
  ELSE IF TrimSpace(args[1]) = "" THEN R(st, "Invalid user Id", Nil)
  ELSE IF TrimSpace(args[2]) = "" THEN R(st, "Invalid affiliation", Nil)
  ELSE
    LET id == args[1]
        key == GetStateKey(id, USER).v
    IN With(Atoi(args[2]), LAMBDA affiliation :
       IF affiliation.v = 0 \/ affiliation.err # NoErr THEN R(st, "Invalid affiliation", Nil)
       ELSE IF affiliation.v = BUYER_A THEN CreateUserResult(GetBuyer(st, key), id)
       ELSE IF affiliation.v = SELLER_A THEN CreateUserResult(GetSeller(st, key), id)
       ELSE IF affiliation.v = BANK_A THEN CreateUserResult(GetBank(st, key), id)
       ELSE IF affiliation.v = APPRAISER_A THEN CreateUserResult(GetAppraiser(st, key), id)
       ELSE IF affiliation.v = AUDITOR_A THEN CreateUserResult(GetAuditor(st, key), id)
       ELSE R(st, "Invalid user type", Nil))

GetAuditorMALogs(st, callerId, callerAffiliation, args) ==
  IF Len(args) < 1 THEN R(st, "Mortgage Application ID missing", Nil)
  ELSE IF callerAffiliation # AUDITOR_A
    THEN R(st, "does not have rights to access auditor logs", Nil)
  ELSE
    With(GetMALogHolder(st, GetStateKey(args[1], MALOG).v), LAMBDA g :
      IF g.err # NoErr THEN R(g.st, g.err, Nil)
      ELSE R(g.st, NoErr, MarshalList(g.v.MALogs)))

\* a variant of GetAuditorBCLogs without the role check
GetAuditorBCLogsForAll(st, callerId, callerAffiliation, args) ==
  With(GetBCLogs(st), LAMBDA g :
    IF g.err # NoErr THEN R(g.st, g.err, Nil)
    ELSE R(g.st, NoErr, MarshalList(g.v)))

GetAuditorBCLogs(st, callerId, callerAffiliation, args) ==
  IF callerAffiliation # AUDITOR_A
    THEN R(st, "does not have rights to access auditor logs", Nil)
    ELSE
      With(GetBCLogs(st), LAMBDA g :
        IF g.err # NoErr THEN R(g.st, g.err, Nil)
        ELSE R(g.st, NoErr, MarshalList(g.v)))

(***************************************************************************)
(* Deployment data: Setup and the property ads                             *)
(***************************************************************************)
UnmarshalPropertyAd(b) ==
  [ID |-> Fld(b, "id", ""),
   LandID |-> Fld(b, "landId", ""),
   PermitID |-> Fld(b, "permitId", ""),
   PropertyID |-> Fld(b, "propertyId", ""),
   Description |-> Fld(b, "description", ""),
   Address |-> Fld(b, "address", ""),
   SellerID |-> Fld(b, "sellerId", ""),
   BankID |-> Fld(b, "bankId", ""),
   ListedPrice |-> Fld(b, "listedPrice", 0),
   LastModifiedDate |-> Fld(b, "lastModifiedDate", "")]

MarshalPropertyAd(pa) ==
  [t |-> "obj", id |-> pa.ID, landId |-> pa.LandID, permitId |-> pa.PermitID,
   propertyId |-> pa.PropertyID, description |-> pa.Description,
   address |-> pa.Address, sellerId |-> pa.SellerID, bankId |-> pa.BankID,
   listedPrice |-> pa.ListedPrice, lastModifiedDate |-> pa.LastModifiedDate]

\* The records Setup writes, the first two of the eight of each kind; the
\* time of the call is one value
landRecords ==
  << [t |-> "obj", id |-> "land1", description |-> "Residential area",
      address |-> "Madison Ave, New York, Ny", ownerId |-> "jack24",
      lastModifiedDate |-> "now"],
     [t |-> "obj", id |-> "land2", description |-> "Residential area",
      address |-> "Fremont, California, CA", ownerId |-> "mark14",
      lastModifiedDate |-> "now"] >>

propertyList ==
  << [t |-> "obj", id |-> "property1", landId |-> "land1", permitId |-> "permit1",
      description |-> "Residential House",
      address |-> "4305 22nd street, Flushing, New York, Ny",
      ownerId |-> "jack24", registeredPrice |-> 500000, lastModifiedDate |-> "now"],
     [t |-> "obj", id |-> "property2", landId |-> "land2", permitId |-> "permit2",
      description |-> "Residential House",
      address |-> "2156 Madison Ave, New York, Ny",
      ownerId |-> "mark14", registeredPrice |-> 500000, lastModifiedDate |-> "now"] >>

propertyAds ==
  << [t |-> "obj", id |-> "propertyAd1", landId |-> "land1", permitId |-> "permit1",
      propertyId |-> "property1", description |-> "description",
      address |-> "704 Madison Ave, Apartment no: 402, New York, Ny",
      sellerId |-> "jack24", bankId |-> "Bank Of America",
      listedPrice |-> 1000000, lastModifiedDate |-> "now"],
     [t |-> "obj", id |-> "propertyAd2", landId |-> "land2", permitId |-> "permit2",
      propertyId |-> "property2", description |-> "description",
      address |-> "2156 Madison Ave, Apartment no: 202, New York, Ny",
      sellerId |-> "mark14", bankId |-> "Wells Fargo Mortgage",
      listedPrice |-> 1500000, lastModifiedDate |-> "now"] >>

\* the loop that stores records j.. under prefix + id
RECURSIVE PutRecords(_, _, _, _)
PutRecords(st, prefix, recs, j) ==
  IF j > Len(recs) THEN st
  ELSE PutRecords(PutState(st, prefix \o recs[j].id, recs[j]), prefix, recs, j + 1)

\* the keys of the stored records, as the registry lists them
RecordKeys(prefix, recs) == [j \in DOMAIN recs |-> prefix \o recs[j].id]

generateLandRecords(st) ==
  R(PutState(PutRecords(st, typeLand, landRecords, 1), landKeysName,
             MarshalList(RecordKeys(typeLand, landRecords))), NoErr, landRecords)

generatePropertyList(st) ==
  R(PutState(PutRecords(st, typeProperty, propertyList, 1), propertyKeysName,
             MarshalList(RecordKeys(typeProperty, propertyList))), NoErr, propertyList)

\* a variant of generatePropertyAdsList that extends the stored registry
\* instead of replacing it
generatePropertyAdsListAppending(st) ==
  R(PutState(PutRecords(st, typePropertyAd, propertyAds, 1), propertyAdKeysName,
             MarshalList(UnmarshalList(GetState(st, propertyAdKeysName)) \o
                         RecordKeys(typePropertyAd, propertyAds))), NoErr, propertyAds)

generatePropertyAdsList(st) ==
  R(PutState(PutRecords(st, typePropertyAd, propertyAds, 1), propertyAdKeysName,
             MarshalList(RecordKeys(typePropertyAd, propertyAds))), NoErr, propertyAds)

Setup(st, args) ==
  With(generateLandRecords(st), LAMBDA lrec :
  With(generatePropertyList(lrec.st), LAMBDA prec :
  With(generatePropertyAdsList(prec.st), LAMBDA parec :
    R(parec.st, NoErr, Nil))))

\* the ads under keys j.. of the registry, parsed; the error of the first
\* stored text that does not parse
RECURSIVE ReadPropertyAds(_, _, _, _)
ReadPropertyAds(st, keys, j, acc) ==
  IF j > Len(keys) THEN [err |-> NoErr, v |-> acc]
  ELSE With(GetState(st, keys[j]), LAMBDA paBytes :
         IF ParseFails(paBytes)
           THEN [err |-> "GetPropertyAds: Unable to unmarshal a property ad", v |-> acc]
           ELSE ReadPropertyAds(st, keys, j + 1,
                  Append(acc, MarshalPropertyAd(UnmarshalPropertyAd(paBytes)))))

GetPropertyAds(st) ==
  With(GetState(st, propertyAdKeysName), LAMBDA keysBytes :
    IF keysBytes.t # "arr"
      THEN R(st, "GetPropertyAds: Unable to unmarshal keys", [bytes |-> Nil])
      ELSE With(ReadPropertyAds(st, UnmarshalList(keysBytes), 1, <<>>), LAMBDA ads :
             IF ads.err # NoErr THEN R(st, ads.err, [bytes |-> Nil])
             ELSE R(st, NoErr, [bytes |-> MarshalList(ads.v)])))

GetPropertyAd(st, id) ==
  With(GetState(st, GetStateKey(id, PROPERTYAD).v), LAMBDA paBytes :
    IF ParseFails(paBytes)
      THEN R(st, "GetPropertyAd: Could not unmarshal property ad", [bytes |-> Nil])
      ELSE R(st, NoErr, [bytes |-> paBytes]))

(***************************************************************************)
(* The documents of a party                                                *)
(***************************************************************************)
\* the loops that read every listed document with the caller's rights
RECURSIVE ReadMortgageApplications(_, _, _, _, _, _)
ReadMortgageApplications(st, callerId, callerAffiliation, mas, i, acc) ==
  IF i > Len(mas) THEN R(st, NoErr, MarshalList(acc))
  ELSE With(GetMortgageApplication(st, callerId, callerAffiliation, <<mas[i]>>),
            LAMBDA g :
         IF g.err # NoErr THEN R(g.st, g.err, Nil)
         ELSE ReadMortgageApplications(g.st, callerId, callerAffiliation, mas, i + 1,
                Append(acc, MarshalMortgageApplication(g.v.ma))))

RECURSIVE ReadAppraiserApplications(_, _, _, _, _, _)
ReadAppraiserApplications(st, callerId, callerAffiliation, mas, i, acc) ==
  IF i > Len(mas) THEN R(st, NoErr, MarshalList(acc))
  ELSE With(GetAppraiserApplication(st, callerId, callerAffiliation, <<mas[i]>>),
            LAMBDA g :
         IF g.err # NoErr THEN R(g.st, g.err, Nil)
         ELSE ReadAppraiserApplications(g.st, callerId, callerAffiliation, mas, i + 1,
                Append(acc, MarshalAppraiserApplication(g.v.ma))))

RECURSIVE ReadSalesContracts(_, _, _, _, _, _)
ReadSalesContracts(st, callerId, callerAffiliation, mas, i, acc) ==
  IF i > Len(mas) THEN R(st, NoErr, MarshalList(acc))
  ELSE With(GetSalesContract(st, callerId, callerAffiliation, <<mas[i]>>),
            LAMBDA g :
         IF g.err # NoErr THEN R(g.st, g.err, Nil)
         ELSE ReadSalesContracts(g.st, callerId, callerAffiliation, mas, i + 1,
                Append(acc, MarshalSalesContract(g.v.ma))))

GetMortgageApplications(st, callerId, callerAffiliation, args) ==
  IF callerAffiliation = BUYER_A \/ callerAffiliation = BANK_A
    THEN With(IF callerAffiliation = BUYER_A
                THEN GetBuyer(st, GetStateKey(callerId, USER).v)
                ELSE GetBank(st, GetStateKey(callerId, USER).v), LAMBDA user :
           IF user.err # NoErr THEN R(user.st, user.err, Nil)
           ELSE ReadMortgageApplications(user.st, callerId, callerAffiliation,
                                         user.v.MortgageApplications, 1, <<>>))
    ELSE R(st, "cannot access mortgage applications", Nil)

GetAppraiserApplications(st, callerId, callerAffiliation, args) ==
  IF callerAffiliation = APPRAISER_A
    THEN With(GetAppraiser(st, GetStateKey(callerId, USER).v), LAMBDA user :
           IF user.err # NoErr THEN R(user.st, user.err, Nil)
           ELSE ReadAppraiserApplications(user.st, callerId, callerAffiliation,
                                          user.v.AppraiserApplications, 1, <<>>))
    ELSE R(st, "cannot access appraiser applications", Nil)

GetSalesContracts(st, callerId, callerAffiliation, args) ==
  IF callerAffiliation \in {BUYER_A, BANK_A, SELLER_A}
    THEN With(IF callerAffiliation = BUYER_A
                THEN GetBuyer(st, GetStateKey(callerId, USER).v)
              ELSE IF callerAffiliation = BANK_A
                THEN GetBank(st, GetStateKey(callerId, USER).v)
                ELSE GetSeller(st, GetStateKey(callerId, USER).v), LAMBDA user :
           IF user.err # NoErr THEN R(user.st, user.err, Nil)
           ELSE ReadSalesContracts(user.st, callerId, callerAffiliation,
                                   user.v.SalesContracts, 1, <<>>))
    ELSE R(st, "cannot access sales contracts", Nil)

(***************************************************************************)
(* The caller's identity, and the two entry points                         *)
(***************************************************************************)
\* stub.ReadCertAttribute: a certificate carries some attributes; reading
\* one it does not carry is an error
ReadCertAttribute(cert, attributeName) ==
  IF attributeName \in DOMAIN cert
    THEN [err |-> NoErr, v |-> cert[attributeName]]
    ELSE [err |-> "attribute not found", v |-> ""]

GetCertAttribute(cert, attributeName) ==
  With(ReadCertAttribute(cert, attributeName), LAMBDA attr :
    IF attr.err # NoErr
      THEN [err |-> "Couldn't get attribute", v |-> "", bytes |-> Nil]
      ELSE [err |-> NoErr, v |-> attr.v, bytes |-> [t |-> "str", s |-> attr.v]])

GetUsername(cert) ==
  With(ReadCertAttribute(cert, "username"), LAMBDA username :
    IF username.err # NoErr
      THEN [err |-> "Couldn't get attribute 'username'", v |-> ""]
      ELSE [err |-> NoErr, v |-> username.v])

CheckAffiliation(cert) ==
  With(ReadCertAttribute(cert, "role"), LAMBDA affiliation :
    IF affiliation.err # NoErr
      THEN [err |-> "Couldn't get attribute 'role'", v |-> -1]
      ELSE IF Atoi(affiliation.v).err # NoErr
        THEN [err |-> Atoi(affiliation.v).err, v |-> -1]
        ELSE [err |-> NoErr, v |-> Atoi(affiliation.v).v])

GetCallerMetadata(cert) ==
  With(GetUsername(cert), LAMBDA username :
    IF username.err # NoErr
      THEN [err |-> username.err, username |-> "", affiliation |-> -1]
      ELSE With(CheckAffiliation(cert), LAMBDA affiliation :
             IF affiliation.err # NoErr
               THEN [err |-> affiliation.err, username |-> "", affiliation |-> -1]
               ELSE [err |-> NoErr, username |-> username.v,
                     affiliation |-> affiliation.v]))

\* The call does not return: indexing args[0] of an empty argument array is a
\* run-time panic of the chaincode process
Panic == "panic: runtime error: index out of range"

\* a Get result as the entry point hands it on: the bytes, or the error alone
BytesOrErr(g) == IF g.err # NoErr THEN R(g.st, g.err, Nil) ELSE R(g.st, NoErr, g.v.bytes)

\* the branches of Query behind the identity checks
QueryFunction(st, username, affiliation, function, args) ==
  IF function = "GetMortgageApplication"
    THEN BytesOrErr(GetMortgageApplication(st, username, affiliation, args))
  ELSE IF function = "GetAppraiserApplication"
    THEN BytesOrErr(GetAppraiserApplication(st, username, affiliation, args))
  ELSE IF function = "GetSalesContract"
    THEN BytesOrErr(GetSalesContract(st, username, affiliation, args))
  ELSE IF function = "GetPropertyAds" THEN BytesOrErr(GetPropertyAds(st))
  ELSE IF function = "GetPropertyAd"
    THEN IF Len(args) < 1 THEN R(st, Panic, Nil)
         ELSE BytesOrErr(GetPropertyAd(st, args[1]))
  ELSE IF function = "GetMortgageApplications"
    THEN GetMortgageApplications(st, username, affiliation, args)
  ELSE IF function = "GetAppraiserApplications"
    THEN GetAppraiserApplications(st, username, affiliation, args)
  ELSE IF function = "GetSalesContracts"
    THEN GetSalesContracts(st, username, affiliation, args)
  ELSE IF function = "GetAuditorMALogs"
    THEN GetAuditorMALogs(st, username, affiliation, args)
  ELSE IF function = "GetAuditorBCLogs"
    THEN GetAuditorBCLogs(st, username, affiliation, args)
  ELSE R(st, "Invalid function name", Nil)

\* the branches of Invoke behind the identity checks
InvokeFunction(st, username, affiliation, function, args) ==
  IF function = "CreateMortgageApplication"
    THEN CreateMortgageApplication(st, username, affiliation, args)
  ELSE IF function = "UpdateMortgageApplication"
    THEN UpdateMortgageApplication(st, username, affiliation, args)
  ELSE IF function = "CreateAppraiserApplication"
    THEN CreateAppraiserApplication(st, username, affiliation, args)
  ELSE IF function = "UpdateAppraiserApplication"
    THEN UpdateAppraiserApplication(st, username, affiliation, args)
  ELSE IF function = "CreateSalesContract"
    THEN CreateSalesContract(st, username, affiliation, args)
  ELSE IF function = "UpdateSalesContract"
    THEN UpdateSalesContract(st, username, affiliation, args)
  ELSE R(st, "Received unknown function invocation", Nil)

\* a resolver that lets every certificate through as it is read
IdentityUnchecked(m) == NoErr

\* the identity checks of Query and Invoke: the error, or NoErr
IdentityChecked(m) ==
  IF m.err # NoErr THEN m.err
  ELSE IF TrimSpace(m.username) = "" THEN "Invoke: Could not get username"
  ELSE IF m.affiliation <= 0 THEN "Invoke: Could not get affiliation"
  ELSE NoErr

Query(st, cert, function, args) ==
  IF function = "GetCertAttribute"
    THEN IF Len(args) < 1 THEN R(st, Panic, Nil)
         ELSE With(GetCertAttribute(cert, args[1]), LAMBDA a :
                IF a.err # NoErr THEN R(st, a.err, Nil) ELSE R(st, NoErr, a.bytes))
    ELSE With(GetCallerMetadata(cert), LAMBDA m :
           IF IdentityChecked(m) # NoErr THEN R(st, IdentityChecked(m), Nil)
           ELSE QueryFunction(st, m.username, m.affiliation, function, args))

Invoke(st, cert, function, args) ==
  IF function = "CreateUser" THEN CreateUser(st, args)
  ELSE IF function = "Setup" THEN Setup(st, args)
  ELSE With(GetCallerMetadata(cert), LAMBDA m :
         IF IdentityChecked(m) # NoErr THEN R(st, IdentityChecked(m), Nil)
         ELSE InvokeFunction(st, m.username, m.affiliation, function, args))

(***************************************************************************)
(* Inputs                                                                  *)
(***************************************************************************)
MABodies(id) ==
  { [t |-> "obj", id |-> id, buyerId |-> "u1", reviewerId |-> "u2",
     salesContractId |-> "", status |-> "Submitted", requestedAmount |-> 5,
     fairMarketValue |-> 0, approvedAmount |-> 0] }

AABodies(id) ==
  { [t |-> "obj", id |-> id, mortgageApplicationId |-> "d1", appraiserId |-> a,
     reviewerId |-> "u2", propertyId |-> "p1", status |-> "Submitted",
     fairMarketValue |-> 0] : a \in {"u3", "u2"} }

SCBodies(id) ==
  { [t |-> "obj", id |-> id, propertyId |-> "p1", buyerId |-> "u1", sellerId |-> "u3",
     reviewerId |-> "u2", buyerSignature |-> "", sellerSignature |-> "",
     status |-> "Submitted", price |-> 100] }

MAUpdates ==
  { [t |-> "obj", status |-> "", salesContractId |-> "", fairMarketValue |-> 0, approvedAmount |-> 0],
    [t |-> "obj", status |-> " ", salesContractId |-> " ", fairMarketValue |-> 0, approvedAmount |-> 0],
    [t |-> "obj", status |-> " Approved ", salesContractId |-> "", fairMarketValue |-> 0, approvedAmount |-> 0],
    [t |-> "obj", status |-> "", salesContractId |-> " d1 ", fairMarketValue |-> 0, approvedAmount |-> 0],
    [t |-> "obj", status |-> "", salesContractId |-> "", fairMarketValue |-> 0, approvedAmount |-> 9],
    [t |-> "obj", status |-> " Approved ", salesContractId |-> " d1 ", fairMarketValue |-> 7, approvedAmount |-> 9],
    [t |-> "obj", status |-> "", salesContractId |-> "", fairMarketValue |-> 7, approvedAmount |-> 0],
    Bad }

AAUpdates ==
  { [t |-> "obj", status |-> "", fairMarketValue |-> 0],
    [t |-> "obj", status |-> " ", fairMarketValue |-> 0],
    [t |-> "obj", status |-> " Approved ", fairMarketValue |-> 0],
    [t |-> "obj", status |-> "", fairMarketValue |-> 7],
    [t |-> "obj", status |-> " Approved ", fairMarketValue |-> 7],
    Bad }

SCUpdates ==
  { [t |-> "obj", status |-> "", buyerSignature |-> "", sellerSignature |-> "", price |-> 0],
    [t |-> "obj", status |-> " ", buyerSignature |-> " ", sellerSignature |-> " ", price |-> 0],
    [t |-> "obj", status |-> " Approved ", buyerSignature |-> "", sellerSignature |-> "", price |-> 0],
    [t |-> "obj", status |-> "", buyerSignature |-> " sig ", sellerSignature |-> "", price |-> 0],
    [t |-> "obj", status |-> "", buyerSignature |-> "", sellerSignature |-> " sig ", price |-> 90],
    Bad }

\* too few arguments
ShortArgs == { <<"d1">> }

CreateUserArgs ==
  { <<"u3", "2">>, <<"u3", "0">>, <<"u3", "9">>, <<"u3", "x">>, <<" ", "2">>, <<"u3">> }

(***************************************************************************)
(* The state machine: one call of the chaincode per step                   *)
(***************************************************************************)
NoCall ==
  [op |-> "none", caller |-> "", role |-> 0, args |-> <<>>, err |-> NoErr,
   out |-> Nil, wr |-> {}]

\* the stub a call starts with
Stub == StubOn(ledger)

\* the global audit log as stored
BCLogs(led) == UnmarshalList(GetState(StubOn(led), bcLogsKey))

\* the audit log has room for the entries of one more call
LogHasRoom == Len(BCLogs(ledger)) < MaxLog

Returns(op, cert, args, r, out) ==
  /\ last = NoCall
  /\ ledger' = r.st.led
  /\ last' = [op |-> op, caller |-> cert[1], role |-> cert[2], args |-> args,
              err |-> r.err, out |-> out, wr |-> r.st.wr]
  /\ appended' = appended \o r.st.ap
  /\ UNCHANGED <<calls, running>>

\* Init called with a function other than Setup writes nothing; the keys
\* Setup writes (land:, prop:, propad: and their registries) are read by
\* none of the operations below
Init ==
  /\ ledger = [k \in {} |-> Nil]
  /\ last = NoCall
  /\ appended = <<>>
  /\ calls = 0
  /\ running = <<>>

InvokeCreateMortgageApplication ==
  /\ LogHasRoom
  /\ \E cert \in Certs :
       \E args \in ShortArgs \cup UNION {{<<d, b>> : b \in MABodies(d) \cup {Bad}} : d \in DocIds} :
         LET r == CreateMortgageApplication(Stub, cert[1], cert[2], args)
         IN Returns("CreateMortgageApplication", cert, args, r, r.v)

InvokeUpdateMortgageApplication ==
  /\ LogHasRoom
  /\ \E cert \in Certs :
       \E args \in ShortArgs \cup (DocIds \X MAUpdates) :
         LET r == UpdateMortgageApplication(Stub, cert[1], cert[2], args)
         IN Returns("UpdateMortgageApplication", cert, args, r, r.v)

QueryGetMortgageApplication ==
  \E cert \in Certs :
    \E args \in {<<>>} \cup {<<d>> : d \in DocIds} :
      LET r == GetMortgageApplication(Stub, cert[1], cert[2], args)
      IN Returns("GetMortgageApplication", cert, args, r, r.v.bytes)

InvokeCreateAppraiserApplication ==
  /\ LogHasRoom
  /\ \E cert \in Certs :
       \E args \in ShortArgs \cup UNION {{<<d, b>> : b \in AABodies(d) \cup {Bad}} : d \in DocIds} :
         LET r == CreateAppraiserApplication(Stub, cert[1], cert[2], args)
         IN Returns("CreateAppraiserApplication", cert, args, r, r.v)

InvokeUpdateAppraiserApplication ==
  /\ LogHasRoom
  /\ \E cert \in Certs :
       \E args \in ShortArgs \cup (DocIds \X AAUpdates) :
         LET r == UpdateAppraiserApplication(Stub, cert[1], cert[2], args)
         IN Returns("UpdateAppraiserApplication", cert, args, r, r.v)

QueryGetAppraiserApplication ==
  \E cert \in Certs :
    \E args \in {<<>>} \cup {<<d>> : d \in DocIds} :
      LET r == GetAppraiserApplication(Stub, cert[1], cert[2], args)
      IN Returns("GetAppraiserApplication", cert, args, r, r.v.bytes)

InvokeCreateSalesContract ==
  /\ LogHasRoom
  /\ \E cert \in Certs :
       \E args \in ShortArgs \cup UNION {{<<d, b>> : b \in SCBodies(d) \cup {Bad}} : d \in DocIds} :
         LET r == CreateSalesContract(Stub, cert[1], cert[2], args)
         IN Returns("CreateSalesContract", cert, args, r, r.v)

InvokeUpdateSalesContract ==
  /\ LogHasRoom
  /\ \E cert \in SCCallers :
       \E args \in ShortArgs \cup (DocIds \X SCUpdates) :
         LET r == UpdateSalesContract(Stub, cert[1], cert[2], args)
         IN Returns("UpdateSalesContract", cert, args, r, r.v)

QueryGetSalesContract ==
  \E cert \in SCCallers :
    \E args \in {<<>>} \cup {<<d>> : d \in DocIds} :
      LET r == GetSalesContract(Stub, cert[1], cert[2], args)
      IN Returns("GetSalesContract", cert, args, r, r.v.bytes)

InvokeCreateUser ==
  \E args \in CreateUserArgs :
    LET r == CreateUser(Stub, args)
    IN Returns("CreateUser", <<"", 0>>, args, r, r.v)

QueryGetAuditorMALogs ==
  \E cert \in Certs :
    \E args \in {<<>>} \cup {<<d>> : d \in DocIds} :
      LET r == GetAuditorMALogs(Stub, cert[1], cert[2], args)
      IN Returns("GetAuditorMALogs", cert, args, r, r.v)

QueryGetAuditorBCLogs ==
  \E cert \in Certs :
    LET r == GetAuditorBCLogs(Stub, cert[1], cert[2], <<>>)
    IN Returns("GetAuditorBCLogs", cert, <<>>, r, r.v)

\* the result is handed to the client and the call is over
Return ==
  /\ last # NoCall
  /\ last' = NoCall
  /\ UNCHANGED <<ledger, appended, calls, running>>

Next ==
  \/ Return
  \/ InvokeCreateMortgageApplication
  \/ InvokeUpdateMortgageApplication
  \/ QueryGetMortgageApplication
  \/ InvokeCreateAppraiserApplication
  \/ InvokeUpdateAppraiserApplication
  \/ QueryGetAppraiserApplication
  \/ InvokeCreateSalesContract
  \/ InvokeUpdateSalesContract
  \/ QueryGetSalesContract
  \/ InvokeCreateUser
  \/ QueryGetAuditorMALogs
  \/ QueryGetAuditorBCLogs

Spec == Init /\ [][Next]_vars

(***************************************************************************)
(* The entry points as a client reaches them: Query and Invoke with any    *)
(* function name, any certificate and any argument array                   *)
(***************************************************************************)
\* the certificate of an enrolled identity
CertOf(c) == [username |-> c[1], role |-> Itoa(c[2])]

\* certificates without an attribute, with a blank username, with a role
\* that is no number or no positive number
BadCerts ==
  { [role |-> "1"], [username |-> "", role |-> "1"], [username |-> " ", role |-> "1"],
    [username |-> "u1"], [username |-> "u1", role |-> "x"],
    [username |-> "u1", role |-> "0"], [username |-> "u1", role |-> "-1"] }

DispatchCerts == {CertOf(c) : c \in Certs} \cup BadCerts

QueryNames ==
  { "GetCertAttribute", "GetMortgageApplication", "GetAppraiserApplication",
    "GetSalesContract", "GetPropertyAds", "GetPropertyAd", "GetMortgageApplications",
    "GetAppraiserApplications", "GetSalesContracts", "GetAuditorMALogs",
    "GetAuditorBCLogs", "Unknown" }

InvokeNames ==
  { "CreateUser", "Setup", "CreateMortgageApplication", "UpdateMortgageApplication",
    "CreateAppraiserApplication", "UpdateAppraiserApplication", "CreateSalesContract",
    "UpdateSalesContract", "Unknown" }

\* the second argument a complete call of each function carries
Payloads ==
  [CreateMortgageApplication |-> MABodies("d1"),
   CreateAppraiserApplication |-> AABodies("d1"),
   CreateSalesContract |-> SCBodies("d1"),
   UpdateMortgageApplication |->
     {[t |-> "obj", status |-> " Approved ", salesContractId |-> "",
       fairMarketValue |-> 0, approvedAmount |-> 9]},
   UpdateAppraiserApplication |->
     {[t |-> "obj", status |-> "", fairMarketValue |-> 7]},
   UpdateSalesContract |->
     {[t |-> "obj", status |-> " Approved ", buyerSignature |-> "",
       sellerSignature |-> " sig ", price |-> 0]}]

PayloadOf(function) ==
  IF function \in DOMAIN Payloads THEN Payloads[function] ELSE {}

\* the argument arrays: empty, one argument, two arguments
ArgsOf(function) ==
  {<<>>}
  \cup (CASE function = "GetCertAttribute" -> {<<"username">>, <<"role">>, <<"d1">>}
          [] function = "GetPropertyAd" -> {<<"propertyAd1">>, <<"d1">>}
          [] function = "CreateUser" -> {<<"u1">>, <<"u1", "1">>, <<"u3", "5">>}
          [] OTHER -> {<<"d1">>})
  \cup {<<"d1", b>> : b \in PayloadOf(function)}

\* one call through an entry point, from its arrival to its result
Dispatched(entry, cert, function, args, r) ==
  /\ last = NoCall
  /\ calls < MaxCalls
  /\ calls' = calls + 1
  /\ UNCHANGED running
  /\ ledger' = r.st.led
  /\ appended' = appended \o r.st.ap
  /\ last' = [op |-> function, caller |-> GetCallerMetadata(cert).username,
              role |-> GetCallerMetadata(cert).affiliation, args |-> args,
              err |-> r.err, out |-> r.v, wr |-> r.st.wr,
              entry |-> entry, cert |-> cert]

DispatchQuery ==
  \E cert \in DispatchCerts : \E function \in QueryNames : \E args \in ArgsOf(function) :
    Dispatched("Query", cert, function, args, Query(Stub, cert, function, args))

DispatchInvoke ==
  \E cert \in DispatchCerts : \E function \in InvokeNames : \E args \in ArgsOf(function) :
    Dispatched("Invoke", cert, function, args, Invoke(Stub, cert, function, args))

NextDispatch ==
  \/ Return
  \/ DispatchQuery
  \/ DispatchInvoke

SpecDispatch == Init /\ [][NextDispatch]_vars

(***************************************************************************)
(* GetStateKey on its own: a kind code and an id come in, the key or the   *)
(* error goes out                                                          *)
(***************************************************************************)
\* ids, some of them made of the tail of one prefix and a colon
KeyIds == {"d1", "d2", "", ":", "ad:d1", "log:d1", "a:d1", "user:d1"}

KindCodes == (-1)..MaxKind

\* a call of GetStateKey that has not returned yet
Pending == "pending"

KeyCall(id, otype) ==
  [op |-> "GetStateKey", caller |-> "", role |-> 0, args |-> <<id, otype>>,
   err |-> Pending, out |-> "", wr |-> {}]

InitKey ==
  /\ ledger = [k \in {} |-> Nil]
  /\ appended = <<>>
  /\ calls = 0
  /\ running = <<>>
  /\ \E id \in KeyIds : \E otype \in KindCodes : last = KeyCall(id, otype)

ApplyGetStateKey ==
  /\ last.op = "GetStateKey"
  /\ last.err = Pending
  /\ last' = [last EXCEPT !.err = GetStateKey(last.args[1], last.args[2]).err,
                          !.out = GetStateKey(last.args[1], last.args[2]).v]
  /\ UNCHANGED <<ledger, appended, calls, running>>

NextKey == ApplyGetStateKey

SpecKey == InitKey /\ [][NextKey]_vars

(***************************************************************************)
(* Sales contracts of several buyers: each call runs from its first read   *)
(* to its last write before the next call starts                           *)
(***************************************************************************)
Buyers == {"u1", "u5"}

Sellers == {"u3", "u6"}

ContractIds == {"d1", "d2"}

\* the contract buyer submits under id, naming seller
SCBodyOf(id, buyer, seller) ==
  [t |-> "obj", id |-> id, propertyId |-> "p1", buyerId |-> buyer, sellerId |-> seller,
   reviewerId |-> "u2", buyerSignature |-> "", sellerSignature |-> "",
   status |-> "Submitted", price |-> 100]

BuyerCreatesSalesContract ==
  /\ LogHasRoom
  /\ \E buyer \in Buyers : \E seller \in Sellers : \E id \in ContractIds :
       LET args == <<id, SCBodyOf(id, buyer, seller)>>
           r == CreateSalesContract(Stub, buyer, BUYER_A, args)
       IN Returns("CreateSalesContract", <<buyer, BUYER_A>>, args, r, r.v)

NextBuyers ==
  \/ Return
  \/ BuyerCreatesSalesContract

SpecBuyers == Init /\ [][NextBuyers]_vars

(***************************************************************************)
(* Two CreateSalesContract calls whose ledger reads and writes interleave: *)
(* u1 submits contract d1 and u5 contract d2, both naming seller u3 and    *)
(* reviewer u2.  A step is one helper call of CreateSalesContract or of    *)
(* the AddKey and AppendMALog it runs; what a read returned is held by the *)
(* call until the write that follows it.                                   *)
(***************************************************************************)
\* the reads and writes of CreateSalesContract, in program order
Steps ==
  << "PutState", "AddKeyRead", "AddKeyWrite", "GetSeller", "SaveSeller", "GetBuyer",
     "SaveBuyer", "GetBank", "SaveBank", "GetMALogHolder", "SaveMALogHolder",
     "GetMALogKeys", "SaveMALogKeys", "GetBCLogs", "SaveBCLogs" >>

\* a call at its start
CallOf(buyer, id) ==
  [pc |-> 1, held |-> Nil, callerId |-> buyer, args |-> <<id, SCBodyOf(id, buyer, "u3")>>]

\* the call has returned (CreateSalesContract returns nil, nil at its end)
Done(c) == c.pc > Len(Steps)

\* the audit entry AppendMALog builds for the call
LogOf(c) ==
  [MortgageApplicationId |-> c.args[1], BuyerId |-> "", ReviewerId |-> "",
   Status |-> "Submitted", Action |-> "CreateSalesContract",
   Text |-> <<c.callerId, " Submitted new SalesContract">>]

\* a read: the stub after it (a helper stores the record it does not find)
\* and the value the call holds
Held(g) == [st |-> g.st, held |-> g.v]

\* a write: the stub after it
Wrote(st) == [st |-> st, held |-> Nil]

\* the step of call c at its position, on stub st
Segment(st, c) ==
  LET step == Steps[c.pc]
      salesContractId == c.args[1]
      sc == UnmarshalSalesContract(c.args[2])
      maKey == GetStateKey(salesContractId, SALESCONTRACT).v
      userKey == GetStateKey(sc.SellerId, USER).v
      buyerKey == GetStateKey(c.callerId, USER).v
      bankKey == GetStateKey(sc.ReviewerId, USER).v
      key == GetStateKey(salesContractId, MALOG).v
  IN CASE step = "PutState" -> Wrote(PutState(st, maKey, c.args[2]))
       [] step = "AddKeyRead" ->
            Held(R(st, NoErr, UnmarshalList(GetState(st, scKeysName))))
       [] step = "AddKeyWrite" ->
            Wrote(PutState(st, maKeysName, MarshalList(Append(c.held, maKey))))
       [] step = "GetSeller" -> Held(GetSeller(st, userKey))
       [] step = "SaveSeller" ->
            Wrote(SaveSeller(st, [c.held EXCEPT !.SalesContracts =
                                    Append(@, salesContractId)], userKey).st)
       [] step = "GetBuyer" -> Held(GetBuyer(st, buyerKey))
       [] step = "SaveBuyer" ->
            Wrote(SaveBuyer(st, [c.held EXCEPT !.SalesContracts =
                                   Append(@, salesContractId)], buyerKey).st)
       [] step = "GetBank" -> Held(GetBank(st, bankKey))
       [] step = "SaveBank" ->
            Wrote(SaveBank(st, [c.held EXCEPT !.SalesContracts =
                                  Append(@, salesContractId)], bankKey).st)
       [] step = "GetMALogHolder" ->
            Held(GetMALogHolder([st EXCEPT !.ap = Append(@, LogOf(c))], key))
       [] step = "SaveMALogHolder" ->
            Wrote(SaveMALogHolder(st, [MALogs |-> Append(c.held.MALogs, LogOf(c))],
                                  key).st)
       [] step = "GetMALogKeys" -> Held(GetMALogKeys(st))
       [] step = "SaveMALogKeys" -> Wrote(SaveMALogKeys(st, Append(c.held, key)).st)
       [] step = "GetBCLogs" -> Held(GetBCLogs(st))
       [] step = "SaveBCLogs" -> Wrote(SaveBCLogs(st, Append(c.held, LogOf(c))).st)

InitInterleaved ==
  /\ ledger = [k \in {} |-> Nil]
  /\ last = NoCall
  /\ appended = <<>>
  /\ calls = 0
  /\ running = <<CallOf("u1", "d1"), CallOf("u5", "d2")>>

\* one of the calls makes its next read or write
CallStep ==
  \E p \in DOMAIN running :
    /\ ~Done(running[p])
    /\ LET s == Segment(Stub, running[p])
       IN /\ ledger' = s.st.led
          /\ appended' = appended \o s.st.ap
          /\ running' = [running EXCEPT ![p] = [@ EXCEPT !.pc = @ + 1,
                                                         !.held = s.held]]
    /\ UNCHANGED <<last, calls>>

NextInterleaved == CallStep

SpecInterleaved == InitInterleaved /\ [][NextInterleaved]_vars

(***************************************************************************)
(* The Create operations one ledger write at a time: a call is made on the *)
(* ledger as it stands, and the PutState calls it makes reach the ledger   *)
(* one by one, in the order the call makes them, so that the states        *)
(* between two writes of one call are states of the specification.  The    *)
(* writes a call made before it returned an error are among them.          *)
(***************************************************************************)
CreateNames ==
  {"CreateMortgageApplication", "CreateAppraiserApplication", "CreateSalesContract"}

\* the argument arrays of a create: an id and a body, well-formed or not
CreateArgs(function) ==
  {<<d, b>> : d \in ContractIds,
              b \in {Bad} \cup (IF function = "CreateMortgageApplication" THEN MABodies("d1")
                                 ELSE IF function = "CreateAppraiserApplication"
                                   THEN AABodies("d1")
                                   ELSE SCBodies("d1"))}

CreateCall(st, function, cert, args) ==
  IF function = "CreateMortgageApplication"
    THEN CreateMortgageApplication(st, cert[1], cert[2], args)
  ELSE IF function = "CreateAppraiserApplication"
    THEN CreateAppraiserApplication(st, cert[1], cert[2], args)
    ELSE CreateSalesContract(st, cert[1], cert[2], args)

\* a call starts; its writes are those it makes on the ledger as it stands
BeginCreate ==
  /\ running = <<>>
  /\ LogHasRoom
  /\ \E function \in CreateNames : \E cert \in Certs : \E args \in CreateArgs(function) :
       LET r == CreateCall(Stub, function, cert, args)
       IN running' = <<[op |-> function, caller |-> cert[1], role |-> cert[2],
                        args |-> args, err |-> r.err, tr |-> r.st.tr, ap |-> r.st.ap,
                        pc |-> 0]>>
  /\ UNCHANGED <<ledger, last, appended, calls>>

\* the next PutState of the call reaches the ledger
WriteNext ==
  /\ running # <<>>
  /\ running[1].pc < Len(running[1].tr)
  /\ LET w == running[1].tr[running[1].pc + 1]
     IN ledger' = [k \in DOMAIN ledger \cup {w[1]} |-> IF k = w[1] THEN w[2] ELSE ledger[k]]
  /\ running' = <<[running[1] EXCEPT !.pc = @ + 1]>>
  /\ UNCHANGED <<last, appended, calls>>

\* the call returns
EndCreate ==
  /\ running # <<>>
  /\ running[1].pc = Len(running[1].tr)
  /\ running' = <<>>
  /\ appended' = appended \o running[1].ap
  /\ UNCHANGED <<ledger, last, calls>>

NextWrites ==
  \/ BeginCreate
  \/ WriteNext
  \/ EndCreate

SpecWrites == Init /\ [][NextWrites]_vars

(***************************************************************************)
(* The operations that write audit entries, each as a whole, on documents  *)
(* with two ids: an appraiser application d2 is linked to mortgage         *)
(* application d1, so that one call can append to the logs of two ids.     *)
(***************************************************************************)
LoggedNames ==
  {"CreateMortgageApplication", "UpdateMortgageApplication", "CreateAppraiserApplication",
   "UpdateAppraiserApplication", "CreateSalesContract", "UpdateSalesContract"}

LoggedCall ==
  /\ LogHasRoom
  /\ \E function \in LoggedNames : \E cert \in Certs : \E id \in ContractIds :
       \E b \in PayloadOf(function) :
         Returns(function, cert, <<id, b>>,
                 InvokeFunction(Stub, cert[1], cert[2], function, <<id, b>>), Nil)

NextLogs ==
  \/ Return
  \/ LoggedCall

SpecLogs == Init /\ [][NextLogs]_vars

(***************************************************************************)
(* The legacy variant of the chaincode.  Its helpers (GetSeller,           *)
(* SaveSeller, GetBuyer, SaveBuyer, GetBank, SaveBank, AddKey, GetStateKey *)
(* and AppendMALog) read as those above; its CreateSalesContract saves the *)
(* bank's record under userKey, the key of the seller.                     *)
(***************************************************************************)
LegacyCreateSalesContract(st, callerId, callerAffiliation, args) ==
  IF Len(args) < 2
    THEN R(st, "Could not create CreateSalesContract. Invalid input", Nil)
  ELSE IF ~SCCreateAllowed(callerAffiliation)
    THEN R(st, "is not allowed to create seller contract", Nil)
  ELSE
    LET salesContractId == args[1]
        salesContractInput == args[2]
        maKey == GetStateKey(salesContractId, SALESCONTRACT).v
        sc == UnmarshalSalesContract(salesContractInput)
        sellerId == sc.SellerId
        bankId == sc.ReviewerId
        userKey == GetStateKey(sellerId, USER).v
        buyerKey == GetStateKey(callerId, USER).v
        bankKey == GetStateKey(bankId, USER).v
    IN IF ParseFails(salesContractInput)
         THEN R(st, "CreateSalesContract: Could not unmarshal salesContractInput", Nil)
         ELSE
           With(AddKey(PutState(st, maKey, salesContractInput), maKey, scKeysName),
                LAMBDA ak :
             IF ak.err # NoErr THEN R(ak.st, ak.err, Nil) ELSE
           With(GetSeller(ak.st, userKey), LAMBDA user :
           With(SaveSeller(user.st,
                           [user.v EXCEPT !.SalesContracts = Append(@, salesContractId)],
                           userKey), LAMBDA s2 :
           With(GetBuyer(s2.st, buyerKey), LAMBDA buyer :
           With(SaveBuyer(buyer.st,
                          [buyer.v EXCEPT !.SalesContracts = Append(@, salesContractId)],
                          buyerKey), LAMBDA s3 :
           With(GetBank(s3.st, bankKey), LAMBDA bank :
           With(SaveBank(bank.st,
                         [bank.v EXCEPT !.SalesContracts = Append(@, salesContractId)],
                         userKey), LAMBDA s4 :
           With(AppendMALog(s4.st, "CreateSalesContract",
                            <<callerId, " Submitted new SalesContract">>,
                            "Submitted", salesContractId), LAMBDA s5 :
             R(s5.st, NoErr, Nil)))))))))

LegacyBuyerCreatesSalesContract ==
  /\ LogHasRoom
  /\ \E buyer \in Buyers : \E seller \in Sellers : \E id \in ContractIds :
       LET args == <<id, SCBodyOf(id, buyer, seller)>>
           r == LegacyCreateSalesContract(Stub, buyer, BUYER_A, args)
       IN Returns("CreateSalesContract", <<buyer, BUYER_A>>, args, r, r.v)

NextLegacy ==
  \/ Return
  \/ LegacyBuyerCreatesSalesContract

SpecLegacy == Init /\ [][NextLegacy]_vars

(***************************************************************************)
(* Reading the stored documents and logs in a ledger                       *)
(***************************************************************************)
MAKey(d) == typeMortgageApplication \o d
AAKey(d) == typeAppraiserApplication \o d
SCKey(d) == typeSalesContract \o d

HasMA(led, d) == MAKey(d) \in DOMAIN led /\ led[MAKey(d)].t = "obj"
HasAA(led, d) == AAKey(d) \in DOMAIN led /\ led[AAKey(d)].t = "obj"
HasSC(led, d) == SCKey(d) \in DOMAIN led /\ led[SCKey(d)].t = "obj"

StoredMA(led, d) == UnmarshalMortgageApplication(led[MAKey(d)])
StoredAA(led, d) == UnmarshalAppraiserApplication(led[AAKey(d)])
StoredSC(led, d) == UnmarshalSalesContract(led[SCKey(d)])

\* the per-document log stored for id d
MALogs(led, d) ==
  IF (typeMALog \o d) \in DOMAIN led
    THEN UnmarshalMALogHolder(led[typeMALog \o d]).MALogs
    ELSE <<>>

\* how often x occurs in the list s
Count(x, s) == Cardinality({i \in DOMAIN s : s[i] = x})

\* the call that has just been made carried an id and a parseable payload
CallWithPayload(c, op) ==
  c.op = op /\ Len(c.args) = 2 /\ c.args[2].t = "obj"

\* an incoming string that is empty or whitespace only
Blank(s) == s = "" \/ s = " "

(***************************************************************************)
(* C1.  Once a mortgage application is stored, its status, salesContractId *)
(* and approvedAmount change only in a step whose caller is the            *)
(* application's reviewerId; a step of any other caller (an update, or a   *)
(* CreateMortgageApplication issued again for the id) leaves the three     *)
(* fields as they were.                                                    *)
(***************************************************************************)
C1_ReviewFieldsChangeOnlyByReviewer ==
  [][\A d \in DocIds :
       (/\ HasMA(ledger, d)
        /\ HasMA(ledger', d)
        /\ \/ StoredMA(ledger', d).Status # StoredMA(ledger, d).Status
           \/ StoredMA(ledger', d).SalesContractId # StoredMA(ledger, d).SalesContractId
           \/ StoredMA(ledger', d).ApprovedAmount # StoredMA(ledger, d).ApprovedAmount)
       => last'.caller = StoredMA(ledger, d).ReviewerId]_vars

(***************************************************************************)
(* C2.  GetMortgageApplication on a stored application returns the stored  *)
(* document to the buyer, to the reviewer and to any Auditor, and returns  *)
(* an error and no content to every other caller, whatever the document's  *)
(* other fields are.                                                       *)
(***************************************************************************)
C2_GetMortgageApplicationAuthorization ==
  (last.op = "GetMortgageApplication" /\ Len(last.args) = 1 /\ HasMA(ledger, last.args[1])) =>
    LET ma == StoredMA(ledger, last.args[1]) IN
    IF last.caller = ma.BuyerId \/ last.caller = ma.ReviewerId \/ last.role = AUDITOR_A
      THEN last.err = NoErr /\ last.out = ledger[MAKey(last.args[1])]
      ELSE last.err = "does not have rights to access mortgageApplication" /\ last.out = Nil

\* a caller who is neither buyer, reviewer nor Auditor has been refused an
\* application whose status the reviewer had changed
C2_Witness ==
  /\ last.op = "GetMortgageApplication"
  /\ Len(last.args) = 1
  /\ HasMA(ledger, last.args[1])
  /\ StoredMA(ledger, last.args[1]).Status = "Approved"
  /\ last.caller \notin {StoredMA(ledger, last.args[1]).BuyerId,
                         StoredMA(ledger, last.args[1]).ReviewerId}
  /\ last.role # AUDITOR_A
  /\ last.err # NoErr
  /\ last.out = Nil

(***************************************************************************)
(* C3.  A successful CreateMortgageApplication(id, body) by a caller c,    *)
(* followed immediately by GetMortgageApplication(id) by c, succeeds and   *)
(* returns a document whose buyerId and reviewerId are those of the body,  *)
(* for every caller c.                                                     *)
(***************************************************************************)
C3_CreateThenGetBySameCaller ==
  (last.op = "CreateMortgageApplication" /\ last.err = NoErr) =>
    LET g == GetMortgageApplication(StubOn(ledger), last.caller, last.role,
                                    <<last.args[1]>>)
        body == UnmarshalMortgageApplication(last.args[2])
    IN /\ g.err = NoErr
       /\ g.v.bytes # Nil
       /\ g.v.ma.BuyerId = body.BuyerId
       /\ g.v.ma.ReviewerId = body.ReviewerId

(***************************************************************************)
(* C4.  After a successful CreateMortgageApplication(id, body) by caller c *)
(* for an id not created before, the party record of the submitting buyer  *)
(* c and the party record of the reviewing bank body.reviewerId each hold  *)
(* id exactly once in their mortgageApplications list, whichever ids the   *)
(* caller and the reviewer have.                                           *)
(***************************************************************************)
C4_CreateListsIdOncePerParty ==
  [][(/\ last'.op = "CreateMortgageApplication"
      /\ last'.err = NoErr
      /\ MAKey(last'.args[1]) \notin DOMAIN ledger)
     => LET id == last'.args[1]
            body == UnmarshalMortgageApplication(last'.args[2])
            buyerKey == GetStateKey(last'.caller, USER).v
            bankKey == GetStateKey(body.ReviewerId, USER).v
        IN /\ buyerKey \in DOMAIN ledger'
           /\ bankKey \in DOMAIN ledger'
           /\ Count(id, UnmarshalBuyer(ledger'[buyerKey]).MortgageApplications) = 1
           /\ Count(id, UnmarshalBank(ledger'[bankKey]).MortgageApplications) = 1]_vars

(***************************************************************************)
(* C5.  UpdateMortgageApplication by the application's reviewer with a     *)
(* payload in which only status is non-empty sets the stored status to     *)
(* that value, leaves every other field of the application unchanged, and  *)
(* appends exactly one audit entry, to the per-document log and to the     *)
(* global log, whose text names the old and the new status.                *)
(***************************************************************************)
\* the text names status a and, after it, status b
NamesBoth(text, a, b) ==
  \E i \in DOMAIN text : \E j \in DOMAIN text : i < j /\ text[i] = a /\ text[j] = b

\* the reviewer's update of a stored application; of the payload at most the
\* status is set
C5Case(led, c) ==
  /\ CallWithPayload(c, "UpdateMortgageApplication")
  /\ HasMA(led, c.args[1])
  /\ c.caller = StoredMA(led, c.args[1]).ReviewerId
  /\ UnmarshalMAUpdateSchema(c.args[2]).SalesContractId = ""
  /\ UnmarshalMAUpdateSchema(c.args[2]).ApprovedAmount = 0
  /\ UnmarshalMAUpdateSchema(c.args[2]).FairMarketValue = 0

\* from led to led2 the status became newStatus, nothing else of the
\* application changed, and both logs grew by the same single entry
C5Effect(led, led2, c, newStatus) ==
  LET d == c.args[1]
      old == StoredMA(led, d)
      doc == MALogs(led, d)
      doc2 == MALogs(led2, d)
      all == BCLogs(led)
      all2 == BCLogs(led2)
  IN /\ c.err = NoErr
     /\ HasMA(led2, d)
     /\ StoredMA(led2, d) = [old EXCEPT !.Status = newStatus]
     /\ Len(doc2) = Len(doc) + 1
     /\ SubSeq(doc2, 1, Len(doc)) = doc
     /\ Len(all2) = Len(all) + 1
     /\ SubSeq(all2, 1, Len(all)) = all
     /\ doc2[Len(doc2)] = all2[Len(all2)]
     /\ NamesBoth(doc2[Len(doc2)].Text, old.Status, newStatus)

\* as stated: the status as it was sent is stored whenever it is not the
\* empty string
C5_StatusOnlyUpdateAsSent ==
  [][(C5Case(ledger, last') /\ UnmarshalMAUpdateSchema(last'.args[2]).Status # "")
     => C5Effect(ledger, ledger', last', UnmarshalMAUpdateSchema(last'.args[2]).Status)]_vars

\* C5 as the code has it: the status counts when it is not empty after its
\* surrounding white space is trimmed, and the trimmed status is stored
C5_StatusOnlyUpdateTrimmed ==
  [][(C5Case(ledger, last') /\ TrimSpace(UnmarshalMAUpdateSchema(last'.args[2]).Status) # "")
     => C5Effect(ledger, ledger', last',
                 TrimSpace(UnmarshalMAUpdateSchema(last'.args[2]).Status))]_vars

\* the reviewer has changed the status from Submitted to Approved with a
\* payload that sets the status only
C5_Witness ==
  /\ C5Case(ledger, last)
  /\ UnmarshalMAUpdateSchema(last.args[2]).Status = " Approved "
  /\ last.err = NoErr
  /\ StoredMA(ledger, last.args[1]).Status = "Approved"
  /\ MAKey(last.args[1]) \in last.wr
  /\ NamesBoth(BCLogs(ledger)[Len(BCLogs(ledger))].Text, "Submitted", "Approved")

(***************************************************************************)
(* C6.  UpdateMortgageApplication by the reviewer with a payload whose     *)
(* status and salesContractId are empty or whitespace only and whose       *)
(* approvedAmount is 0 does nothing: it returns success with an empty      *)
(* result, writes no ledger key and appends no audit entry.                *)
(***************************************************************************)
C6Case(led, c) ==
  /\ CallWithPayload(c, "UpdateMortgageApplication")
  /\ HasMA(led, c.args[1])
  /\ c.caller = StoredMA(led, c.args[1]).ReviewerId
  /\ Blank(UnmarshalMAUpdateSchema(c.args[2]).Status)
  /\ Blank(UnmarshalMAUpdateSchema(c.args[2]).SalesContractId)
  /\ UnmarshalMAUpdateSchema(c.args[2]).ApprovedAmount = 0

C6_EmptyReviewerUpdateIsNoOp ==
  [][C6Case(ledger, last')
     => /\ last'.err = NoErr
        /\ last'.out = Nil
        /\ last'.wr = {}
        /\ ledger' = ledger]_vars

\* the reviewer has sent a whitespace-only payload for an application whose
\* status had been changed before, and nothing was written
C6_Witness ==
  /\ C6Case(ledger, last)
  /\ UnmarshalMAUpdateSchema(last.args[2]).Status = " "
  /\ StoredMA(ledger, last.args[1]).Status = "Approved"
  /\ last.err = NoErr
  /\ last.wr = {}

(***************************************************************************)
(* C7.  UpdateAppraiserApplication and UpdateSalesContract by an           *)
(* authorized caller with a payload in which no recognized field is        *)
(* non-empty or non-zero return no error, write no ledger key and append   *)
(* no audit entry to the per-document or the global log.                   *)
(***************************************************************************)
C7CaseAA(led, c) ==
  /\ CallWithPayload(c, "UpdateAppraiserApplication")
  /\ HasAA(led, c.args[1])
  /\ c.caller = StoredAA(led, c.args[1]).AppraiserId
  /\ Blank(UnmarshalAAUpdateSchema(c.args[2]).Status)
  /\ UnmarshalAAUpdateSchema(c.args[2]).FairMarketValue = 0

C7CaseSC(led, c) ==
  /\ CallWithPayload(c, "UpdateSalesContract")
  /\ HasSC(led, c.args[1])
  /\ c.caller \in {StoredSC(led, c.args[1]).SellerId, StoredSC(led, c.args[1]).BuyerId}
  /\ Blank(UnmarshalSCUpdateSchema(c.args[2]).Status)
  /\ Blank(UnmarshalSCUpdateSchema(c.args[2]).BuyerSignature)
  /\ Blank(UnmarshalSCUpdateSchema(c.args[2]).SellerSignature)
  /\ UnmarshalSCUpdateSchema(c.args[2]).Price = 0

C7_EmptyUpdatesAreNoOps ==
  [][(C7CaseAA(ledger, last') \/ C7CaseSC(ledger, last'))
     => /\ last'.err = NoErr
        /\ last'.wr = {}
        /\ MALogs(ledger', last'.args[1]) = MALogs(ledger, last'.args[1])
        /\ BCLogs(ledger') = BCLogs(ledger)]_vars

(***************************************************************************)
(* C8.  Whenever UpdateAppraiserApplication is called by the application's *)
(* assigned appraiser with a nonzero fairMarketValue v and returns         *)
(* success, the stored appraiser application and the mortgage application  *)
(* named by its mortgageApplicationId both have fairMarketValue v          *)
(* afterwards, whichever ids and roles the appraiser and the linked        *)
(* application's reviewer have.                                            *)
(***************************************************************************)
C8_FairMarketValueCascades ==
  [][(/\ CallWithPayload(last', "UpdateAppraiserApplication")
      /\ HasAA(ledger, last'.args[1])
      /\ last'.caller = StoredAA(ledger, last'.args[1]).AppraiserId
      /\ UnmarshalAAUpdateSchema(last'.args[2]).FairMarketValue # 0
      /\ last'.err = NoErr)
     => LET v == UnmarshalAAUpdateSchema(last'.args[2]).FairMarketValue
            maId == StoredAA(ledger, last'.args[1]).MortgageApplicationId
        IN /\ HasAA(ledger', last'.args[1])
           /\ StoredAA(ledger', last'.args[1]).FairMarketValue = v
           /\ HasMA(ledger', maId)
           /\ StoredMA(ledger', maId).FairMarketValue = v]_vars

(***************************************************************************)
(* C9.  A mortgage application's fairMarketValue is changed by an update   *)
(* only when the caller's role is Appraiser; UpdateMortgageApplication by  *)
(* a caller who is neither the reviewer nor of role Appraiser is rejected  *)
(* with an error and writes nothing; an update by an Appraiser-role caller *)
(* changes no field other than fairMarketValue.                            *)
(***************************************************************************)
UpdateOps == {"UpdateMortgageApplication", "UpdateAppraiserApplication", "UpdateSalesContract"}

\* an update step changes the fairMarketValue only for a caller of role Appraiser
C9FmvOnlyByAppraiser ==
  \A d \in DocIds :
    (/\ last'.op \in UpdateOps
     /\ HasMA(ledger, d)
     /\ HasMA(ledger', d)
     /\ StoredMA(ledger', d).FairMarketValue # StoredMA(ledger, d).FairMarketValue)
    => last'.role = APPRAISER_A

\* a caller who is neither reviewer nor Appraiser is rejected and writes nothing
C9OthersRejected ==
  (/\ last'.op = "UpdateMortgageApplication"
   /\ HasMA(ledger, last'.args[1])
   /\ last'.caller # StoredMA(ledger, last'.args[1]).ReviewerId
   /\ last'.role # APPRAISER_A)
  => /\ last'.err # NoErr
     /\ last'.wr = {}
     /\ ledger' = ledger

\* the step left every field of the application but the fairMarketValue alone
C9OnlyFmvChanged ==
  /\ HasMA(ledger', last'.args[1])
  /\ StoredMA(ledger', last'.args[1]) =
       [StoredMA(ledger, last'.args[1]) EXCEPT
          !.FairMarketValue = StoredMA(ledger', last'.args[1]).FairMarketValue]

\* as stated: every caller of role Appraiser changes the fairMarketValue only
C9_AppraiserRoleChangesOnlyFmv ==
  [][/\ C9FmvOnlyByAppraiser
     /\ C9OthersRejected
     /\ (/\ last'.op = "UpdateMortgageApplication"
         /\ HasMA(ledger, last'.args[1])
         /\ last'.role = APPRAISER_A)
        => C9OnlyFmvChanged]_vars

\* C9 as the code has it: the reviewer is recognised before the role is, so
\* the third part holds of the Appraiser-role callers who are not the
\* application's reviewer
C9_NonReviewerAppraiserChangesOnlyFmv ==
  [][/\ C9FmvOnlyByAppraiser
     /\ C9OthersRejected
     /\ (/\ last'.op = "UpdateMortgageApplication"
         /\ HasMA(ledger, last'.args[1])
         /\ last'.role = APPRAISER_A
         /\ last'.caller # StoredMA(ledger, last'.args[1]).ReviewerId)
        => C9OnlyFmvChanged]_vars

\* an Appraiser-role caller who is not the reviewer has set the
\* fairMarketValue of an application the reviewer had approved
C9_Witness ==
  /\ CallWithPayload(last, "UpdateMortgageApplication")
  /\ HasMA(ledger, last.args[1])
  /\ last.role = APPRAISER_A
  /\ last.caller # StoredMA(ledger, last.args[1]).ReviewerId
  /\ last.err = NoErr
  /\ MAKey(last.args[1]) \in last.wr
  /\ StoredMA(ledger, last.args[1]).FairMarketValue = 7
  /\ StoredMA(ledger, last.args[1]).Status = "Approved"

(***************************************************************************)
(* C10.  No update changes a stored nonzero approvedAmount,                *)
(* fairMarketValue or price to 0, nor a stored non-empty status,           *)
(* salesContractId or signature to the empty string; an incoming value     *)
(* that is zero, empty or whitespace only leaves the stored field as it    *)
(* was.                                                                    *)
(***************************************************************************)
\* a number that was not 0 is not 0, a string that was not empty is not empty
KeptNumber(a, b) == a # 0 => b # 0
KeptString(a, b) == a # "" => b # ""

C10NothingReset ==
  \A d \in DocIds :
    /\ HasMA(ledger, d) =>
         /\ HasMA(ledger', d)
         /\ KeptNumber(StoredMA(ledger, d).ApprovedAmount, StoredMA(ledger', d).ApprovedAmount)
         /\ KeptNumber(StoredMA(ledger, d).FairMarketValue, StoredMA(ledger', d).FairMarketValue)
         /\ KeptString(StoredMA(ledger, d).Status, StoredMA(ledger', d).Status)
         /\ KeptString(StoredMA(ledger, d).SalesContractId, StoredMA(ledger', d).SalesContractId)
    /\ HasAA(ledger, d) =>
         /\ HasAA(ledger', d)
         /\ KeptNumber(StoredAA(ledger, d).FairMarketValue, StoredAA(ledger', d).FairMarketValue)
         /\ KeptString(StoredAA(ledger, d).Status, StoredAA(ledger', d).Status)
    /\ HasSC(ledger, d) =>
         /\ HasSC(ledger', d)
         /\ KeptNumber(StoredSC(ledger, d).Price, StoredSC(ledger', d).Price)
         /\ KeptString(StoredSC(ledger, d).Status, StoredSC(ledger', d).Status)
         /\ KeptString(StoredSC(ledger, d).BuyerSignature, StoredSC(ledger', d).BuyerSignature)
         /\ KeptString(StoredSC(ledger, d).SellerSignature, StoredSC(ledger', d).SellerSignature)

C10BlankLeavesMA ==
  (CallWithPayload(last', "UpdateMortgageApplication") /\ HasMA(ledger, last'.args[1])) =>
    LET u == UnmarshalMAUpdateSchema(last'.args[2])
        old == StoredMA(ledger, last'.args[1])
        new == StoredMA(ledger', last'.args[1])
    IN /\ Blank(u.Status) => new.Status = old.Status
       /\ Blank(u.SalesContractId) => new.SalesContractId = old.SalesContractId
       /\ u.ApprovedAmount = 0 => new.ApprovedAmount = old.ApprovedAmount
       /\ u.FairMarketValue = 0 => new.FairMarketValue = old.FairMarketValue

C10BlankLeavesAA ==
  (CallWithPayload(last', "UpdateAppraiserApplication") /\ HasAA(ledger, last'.args[1])) =>
    LET u == UnmarshalAAUpdateSchema(last'.args[2])
        old == StoredAA(ledger, last'.args[1])
        new == StoredAA(ledger', last'.args[1])
    IN /\ Blank(u.Status) => new.Status = old.Status
       /\ u.FairMarketValue = 0 =>
            /\ new.FairMarketValue = old.FairMarketValue
            /\ HasMA(ledger, old.MortgageApplicationId) =>
                 StoredMA(ledger', old.MortgageApplicationId).FairMarketValue =
                 StoredMA(ledger, old.MortgageApplicationId).FairMarketValue

C10BlankLeavesSC ==
  (CallWithPayload(last', "UpdateSalesContract") /\ HasSC(ledger, last'.args[1])) =>
    LET u == UnmarshalSCUpdateSchema(last'.args[2])
        old == StoredSC(ledger, last'.args[1])
        new == StoredSC(ledger', last'.args[1])
    IN /\ Blank(u.Status) => new.Status = old.Status
       /\ Blank(u.BuyerSignature) => new.BuyerSignature = old.BuyerSignature
       /\ Blank(u.SellerSignature) => new.SellerSignature = old.SellerSignature
       /\ u.Price = 0 => new.Price = old.Price

C10_UpdatesNeverReset ==
  [][last'.op \in UpdateOps =>
       /\ C10NothingReset
       /\ C10BlankLeavesMA
       /\ C10BlankLeavesAA
       /\ C10BlankLeavesSC]_vars

\* the reviewer has changed the status of an application whose approved
\* amount was 9 with a payload whose approvedAmount is 0, and the amount is
\* still 9
C10_Witness ==
  /\ CallWithPayload(last, "UpdateMortgageApplication")
  /\ HasMA(ledger, last.args[1])
  /\ UnmarshalMAUpdateSchema(last.args[2]).ApprovedAmount = 0
  /\ UnmarshalMAUpdateSchema(last.args[2]).Status = " Approved "
  /\ last.err = NoErr
  /\ MAKey(last.args[1]) \in last.wr
  /\ StoredMA(ledger, last.args[1]).ApprovedAmount = 9
  /\ StoredMA(ledger, last.args[1]).Status = "Approved"

(***************************************************************************)
(* C11.  An UpdateSalesContract for a stored contract by a caller whose id *)
(* is neither the contract's sellerId nor its buyerId (an Auditor or a     *)
(* Bank that may read the contract included) returns an error and leaves   *)
(* the whole ledger as it was: the contract, every party record and every  *)
(* audit log.                                                              *)
(***************************************************************************)
C11Case(d) ==
  /\ last'.op = "UpdateSalesContract"
  /\ Len(last'.args) >= 1
  /\ last'.args[1] = d
  /\ HasSC(ledger, d)
  /\ last'.caller # StoredSC(ledger, d).SellerId
  /\ last'.caller # StoredSC(ledger, d).BuyerId

C11_NonPartyUpdateRejected ==
  [][\A d \in DocIds :
       C11Case(d) => /\ last'.err # NoErr
                     /\ last'.wr = {}
                     /\ ledger' = ledger]_vars

\* an auditor who is no party of the stored contract has sent a well-formed
\* update that sets a signature and the price, and was refused
C11_Witness ==
  /\ CallWithPayload(last, "UpdateSalesContract")
  /\ last.caller = "u4"
  /\ last.role = AUDITOR_A
  /\ last.args[2].sellerSignature = " sig "
  /\ HasSC(ledger, last.args[1])
  /\ GetSalesContract(Stub, last.caller, last.role, <<last.args[1]>>).err = NoErr
  /\ last.err # NoErr

(***************************************************************************)
(* C12.  In UpdateSalesContract each party sets only its own signature:    *)
(* a call of the contract's buyer never changes the stored sellerSignature *)
(* and a call of the contract's seller never changes the stored            *)
(* buyerSignature, whatever the payload carries.                           *)
(***************************************************************************)
C12Call(d) ==
  /\ last'.op = "UpdateSalesContract"
  /\ Len(last'.args) >= 1
  /\ last'.args[1] = d
  /\ HasSC(ledger, d)
  /\ HasSC(ledger', d)

C12_OnlyOwnSignature ==
  [][\A d \in DocIds :
       C12Call(d) =>
         /\ (last'.caller = StoredSC(ledger, d).BuyerId
              /\ last'.caller # StoredSC(ledger, d).SellerId)
            => StoredSC(ledger', d).SellerSignature = StoredSC(ledger, d).SellerSignature
         /\ (last'.caller = StoredSC(ledger, d).SellerId
              /\ last'.caller # StoredSC(ledger, d).BuyerId)
            => StoredSC(ledger', d).BuyerSignature = StoredSC(ledger, d).BuyerSignature]_vars

(***************************************************************************)
(* C13.  GetSalesContract on a stored contract returns the contract to its *)
(* seller, its buyer, an Auditor and the bank that is the contract's       *)
(* reviewerId, and to nobody else: a caller with role Bank whose id is     *)
(* none of reviewerId, sellerId and buyerId gets an error and no document. *)
(***************************************************************************)
C13Reader(c, sc) ==
  \/ c.caller = sc.SellerId
  \/ c.caller = sc.BuyerId
  \/ c.role = AUDITOR_A
  \/ (c.role = BANK_A /\ c.caller = sc.ReviewerId)

C13_GetSalesContractAuthorization ==
  \A d \in DocIds :
    (last.op = "GetSalesContract" /\ last.args = <<d>> /\ HasSC(ledger, d)) =>
      IF C13Reader(last, StoredSC(ledger, d))
        THEN last.err = NoErr /\ last.out = ledger[SCKey(d)]
        ELSE last.err # NoErr /\ last.out = Nil

(***************************************************************************)
(* C14.  CreateAppraiserApplication by a caller whose role is not Bank and *)
(* CreateSalesContract by a caller whose role is not Buyer each return an  *)
(* error and write no ledger key.                                          *)
(***************************************************************************)
C14Refused == last'.err # NoErr /\ last'.wr = {} /\ ledger' = ledger

C14_CreateByWrongRoleRejected ==
  [][/\ (last'.op = "CreateAppraiserApplication" /\ last'.role # BANK_A) => C14Refused
     /\ (last'.op = "CreateSalesContract" /\ last'.role # BUYER_A) => C14Refused]_vars

\* an appraiser has sent a well-formed appraiser application and was refused
C14_Witness ==
  /\ CallWithPayload(last, "CreateAppraiserApplication")
  /\ last.role = APPRAISER_A
  /\ last.err # NoErr
  /\ last.wr = {}

(***************************************************************************)
(* C15.  After a successful CreateSalesContract(id, body) by a caller with *)
(* role Buyer, the salesContracts list of the seller named in the body, of *)
(* the calling buyer and of the reviewing bank named in the body each      *)
(* contain id, and each still contains every sales-contract id it held     *)
(* before the call.  Checked on every create the model performs and, in    *)
(* the state such a create starts from, on creates of a second id "d2"     *)
(* whose seller and reviewer range over u1, u2 and u3 (the caller          *)
(* included).                                                              *)
(***************************************************************************)
\* the salesContracts list in the party record of user u
SalesContractsOf(led, u) ==
  IF (typeUser \o u) \in DOMAIN led
    THEN Fld(led[typeUser \o u], "salesContracts", <<>>)
    ELSE <<>>

C15Keeps(before, after, id, u) ==
  /\ Count(id, SalesContractsOf(after, u)) >= 1
  /\ \A i \in DOMAIN SalesContractsOf(before, u) :
       Count(SalesContractsOf(before, u)[i], SalesContractsOf(after, u)) >= 1

C15Body(id, seller, reviewer) ==
  [t |-> "obj", id |-> id, propertyId |-> "p1", buyerId |-> "u1", sellerId |-> seller,
   reviewerId |-> reviewer, buyerSignature |-> "", sellerSignature |-> "",
   status |-> "Submitted", price |-> 100]

C15OtherCreates(led, callerId) ==
  \A seller \in {"u1", "u2", "u3"} : \A reviewer \in {"u1", "u2", "u3"} :
    With(CreateSalesContract(StubOn(led), callerId, BUYER_A,
                             <<"d2", C15Body("d2", seller, reviewer)>>), LAMBDA r :
      /\ r.err = NoErr
      /\ \A u \in {seller, callerId, reviewer} : C15Keeps(led, r.st.led, "d2", u))

C15_CreateSalesContractFilesId ==
  [][(last'.op = "CreateSalesContract" /\ last'.err = NoErr /\ last'.role = BUYER_A) =>
       /\ \A u \in {UnmarshalSalesContract(last'.args[2]).SellerId, last'.caller,
                     UnmarshalSalesContract(last'.args[2]).ReviewerId} :
            C15Keeps(ledger, ledger', last'.args[1], u)
       /\ C15OtherCreates(ledger, last'.caller)]_vars

\* a contract has been created when the seller's list already held an id
C15_Witness ==
  /\ last.op = "CreateSalesContract"
  /\ last.err = NoErr
  /\ last.role = BUYER_A
  /\ Len(SalesContractsOf(ledger, UnmarshalSalesContract(last.args[2]).SellerId)) >= 2
  /\ Len(SalesContractsOf(ledger, last.caller)) >= 2
  /\ Len(SalesContractsOf(ledger, UnmarshalSalesContract(last.args[2]).ReviewerId)) >= 2

(***************************************************************************)
(* C16.  After any sequence of Create operations the registry of each kind *)
(* (maKeys, aaKeys, scKeys) lists the key of every stored document of that *)
(* kind and no key of another kind; in particular creating an appraiser    *)
(* application or a sales contract leaves the entries of the               *)
(* mortgage-application registry in place.                                 *)
(***************************************************************************)
\* the keys listed in the registry stored under keysName
Registry(led, keysName) ==
  IF keysName \in DOMAIN led
    THEN {UnmarshalList(led[keysName])[i] : i \in DOMAIN UnmarshalList(led[keysName])}
    ELSE {}

C16_RegistriesListTheirKind ==
  /\ \A d \in DocIds :
       /\ HasMA(ledger, d) => MAKey(d) \in Registry(ledger, maKeysName)
       /\ HasAA(ledger, d) => AAKey(d) \in Registry(ledger, aaKeysName)
       /\ HasSC(ledger, d) => SCKey(d) \in Registry(ledger, scKeysName)
  /\ Registry(ledger, maKeysName) \subseteq {MAKey(d) : d \in DocIds}
  /\ Registry(ledger, aaKeysName) \subseteq {AAKey(d) : d \in DocIds}
  /\ Registry(ledger, scKeysName) \subseteq {SCKey(d) : d \in DocIds}

(***************************************************************************)
(* C17.  Party records only grow: for every party id and each of the lists *)
(* mortgageApplications, salesContracts and appraiserApplications, the     *)
(* list stored after a step contains every element it contained before     *)
(* the step, also when the same id takes part under different roles.       *)
(***************************************************************************)
\* the list named f in the party record of user u
PartyList(led, u, f) ==
  IF (typeUser \o u) \in DOMAIN led THEN Fld(led[typeUser \o u], f, <<>>) ELSE <<>>

C17_PartyListsOnlyGrow ==
  [][\A u \in {"u1", "u2", "u3", "u4"} :
       \A f \in {"mortgageApplications", "salesContracts", "appraiserApplications"} :
         \A i \in DOMAIN PartyList(ledger, u, f) :
           \E j \in DOMAIN PartyList(ledger', u, f) :
             PartyList(ledger', u, f)[j] = PartyList(ledger, u, f)[i]]_vars

(***************************************************************************)
(* C18.  Get-or-create of a party record is idempotent.  When no record is *)
(* stored under the party's key, CreateUser stores one that carries the    *)
(* role's affiliation tag and empty id lists.  When a record is stored     *)
(* (by CreateUser or by an earlier document creation, under any role),     *)
(* CreateUser for that id writes nothing and leaves the ledger as it was.  *)
(* Checked on every CreateUser step and, in the state a successful one     *)
(* starts from, for each of the users u1..u4 under each of the five roles, *)
(* followed by a second CreateUser for the same user under any role.       *)
(***************************************************************************)
C18Roles == {"1", "2", "3", "4", "5"}

\* the ledger aft is the ledger bef plus a fresh record of role tag for u
C18Fresh(bef, aft, u, tag) ==
  /\ DOMAIN aft = DOMAIN bef \cup {typeUser \o u}
  /\ \A k \in DOMAIN bef : aft[k] = bef[k]
  /\ Fld(aft[typeUser \o u], "affiliation", 0) = tag
  /\ \A f \in {"mortgageApplications", "salesContracts", "appraiserApplications"} :
       PartyList(aft, u, f) = <<>>

C18GetOrCreate(led, u, a) ==
  With(CreateUser(StubOn(led), <<u, a>>), LAMBDA r :
    /\ r.err = NoErr
    /\ IF (typeUser \o u) \in DOMAIN led
         THEN r.st.wr = {} /\ r.st.led = led
         ELSE r.st.wr = {typeUser \o u} /\ C18Fresh(led, r.st.led, u, Atoi(a).v)
    /\ \A b \in C18Roles :
         With(CreateUser(StubOn(r.st.led), <<u, b>>), LAMBDA r2 :
           r2.err = NoErr /\ r2.st.wr = {} /\ r2.st.led = r.st.led))

C18_CreateUserIdempotent ==
  [][last'.op = "CreateUser" =>
       /\ (Len(last'.args) = 2 /\ (typeUser \o last'.args[1]) \in DOMAIN ledger)
            => (last'.wr = {} /\ ledger' = ledger)
       /\ (last'.err = NoErr /\ (typeUser \o last'.args[1]) \notin DOMAIN ledger)
            => C18Fresh(ledger, ledger', last'.args[1], Atoi(last'.args[2]).v)
       /\ last'.err = NoErr
            => \A u \in {"u1", "u2", "u3", "u4"} : \A a \in C18Roles :
                 C18GetOrCreate(ledger, u, a)]_vars

\* CreateUser as a seller has succeeded for a user whose record was stored
\* under another role and holds a document id
C18_Witness ==
  /\ last.op = "CreateUser"
  /\ last.err = NoErr
  /\ last.wr = {}
  /\ Fld(ledger[typeUser \o last.args[1]], "affiliation", 0) # Atoi(last.args[2]).v
  /\ PartyList(ledger, last.args[1], "appraiserApplications") # <<>>

(***************************************************************************)
(* C19.  The audit logs are append-only: in every step the global log and  *)
(* the log of every document in the new state have the log of the previous *)
(* state as a prefix.                                                      *)
(***************************************************************************)
IsPrefix(s, t) == Len(s) <= Len(t) /\ \A i \in DOMAIN s : t[i] = s[i]

C19LogsExtended(bef, aft) ==
  /\ IsPrefix(BCLogs(bef), BCLogs(aft))
  /\ \A d \in DocIds : IsPrefix(MALogs(bef, d), MALogs(aft, d))

C19_AuditLogsAppendOnly ==
  [][ledger' # ledger => C19LogsExtended(ledger, ledger')]_vars

\* a call has appended to a global log and a document log that held entries
C19_Witness ==
  /\ bcLogsKey \in last.wr
  /\ last.err = NoErr
  /\ Len(BCLogs(ledger)) >= 3
  /\ \E d \in DocIds : (typeMALog \o d) \in last.wr /\ Len(MALogs(ledger, d)) >= 3

(***************************************************************************)
(* C20.  GetAuditorBCLogs and GetAuditorMALogs called with a role other    *)
(* than Auditor return an error and no log.  GetAuditorBCLogs called by an *)
(* Auditor returns the whole global log: one entry for every audit entry   *)
(* that an earlier Create or Update operation handed to AppendMALog, in    *)
(* the order of the appends.                                               *)
(***************************************************************************)
C20_AuditorLogQueries ==
  /\ (last.op \in {"GetAuditorBCLogs", "GetAuditorMALogs"} /\ last.role # AUDITOR_A)
       => (last.err # NoErr /\ last.out = Nil)
  /\ (last.op = "GetAuditorBCLogs" /\ last.role = AUDITOR_A)
       => (last.err = NoErr /\ last.out = MarshalList(appended))

\* an auditor has read a global log that holds the entries of three appends,
\* made by different operations
C20_Witness ==
  /\ last.op = "GetAuditorBCLogs"
  /\ last.role = AUDITOR_A
  /\ last.err = NoErr
  /\ Len(appended) >= 3
  /\ appended[1].Action # appended[2].Action
  /\ appended[2].Action # appended[3].Action

(***************************************************************************)
(* C21.  Every mutation is logged: a step that changes the bytes stored    *)
(* for a mortgage application, an appraiser application or a sales         *)
(* contract, whether the call returns success or an error, appends in the  *)
(* same step at least one audit entry for that document id to the          *)
(* per-document log and to the global log.                                 *)
(***************************************************************************)
\* the bytes under key k, Nil when nothing is stored
Stored(led, k) == IF k \in DOMAIN led THEN led[k] ELSE Nil

\* the log aft extends the log bef by at least one entry for document id d
C21Logged(bef, aft, d) ==
  \E i \in DOMAIN aft : i > Len(bef) /\ aft[i].MortgageApplicationId = d

C21_EveryMutationLogged ==
  [][\A d \in DocIds : \A k \in {MAKey(d), AAKey(d), SCKey(d)} :
       Stored(ledger', k) # Stored(ledger, k) =>
         /\ C21Logged(MALogs(ledger, d), MALogs(ledger', d), d)
         /\ C21Logged(BCLogs(ledger), BCLogs(ledger'), d)]_vars

(***************************************************************************)
(* C24.  Round trip: right after a successful CreateMortgageApplication,   *)
(* CreateAppraiserApplication or CreateSalesContract (id, body), the Get   *)
(* of the same kind for id by a party authorized for the document succeeds *)
(* and returns exactly the body submitted, members the document type does  *)
(* not declare included.                                                   *)
(***************************************************************************)
\* a body that leaves declared members out and carries an undeclared one
C24Sparse(id) ==
  [t |-> "obj", id |-> id, buyerId |-> "u1", reviewerId |-> "u2",
   appraiserId |-> "u3", sellerId |-> "u3", note |-> "n"]

C24ReadBackMA(led, id, body) ==
  \A g \in SCCallers :
    MAReadAllowed(g[1], g[2], UnmarshalMortgageApplication(body)) =>
      With(GetMortgageApplication(StubOn(led), g[1], g[2], <<id>>), LAMBDA r :
        r.err = NoErr /\ r.v.bytes = body)

C24ReadBackAA(led, id, body) ==
  \A g \in SCCallers :
    AAReadAllowed(g[1], g[2], UnmarshalAppraiserApplication(body)) =>
      With(GetAppraiserApplication(StubOn(led), g[1], g[2], <<id>>), LAMBDA r :
        r.err = NoErr /\ r.v.bytes = body)

C24ReadBackSC(led, id, body) ==
  \A g \in SCCallers :
    C13Reader([caller |-> g[1], role |-> g[2]], UnmarshalSalesContract(body)) =>
      With(GetSalesContract(StubOn(led), g[1], g[2], <<id>>), LAMBDA r :
        r.err = NoErr /\ r.v.bytes = body)

\* the same round trip for the sparse body, created on the ledger of the state
C24SparseRoundTrip(id) ==
  /\ With(CreateMortgageApplication(Stub, "u1", BUYER_A, <<id, C24Sparse(id)>>),
          LAMBDA r : r.err = NoErr /\ C24ReadBackMA(r.st.led, id, C24Sparse(id)))
  /\ With(CreateAppraiserApplication(Stub, "u2", BANK_A, <<id, C24Sparse(id)>>),
          LAMBDA r : r.err = NoErr /\ C24ReadBackAA(r.st.led, id, C24Sparse(id)))
  /\ With(CreateSalesContract(Stub, "u1", BUYER_A, <<id, C24Sparse(id)>>),
          LAMBDA r : r.err = NoErr /\ C24ReadBackSC(r.st.led, id, C24Sparse(id)))

C24_CreateGetRoundTrip ==
  (last.err = NoErr /\ Len(last.args) = 2) =>
    /\ last.op = "CreateMortgageApplication" =>
         C24ReadBackMA(ledger, last.args[1], last.args[2])
    /\ last.op = "CreateAppraiserApplication" =>
         C24ReadBackAA(ledger, last.args[1], last.args[2])
    /\ last.op = "CreateSalesContract" =>
         C24ReadBackSC(ledger, last.args[1], last.args[2])
    /\ last.op \in {"CreateMortgageApplication", "CreateAppraiserApplication",
                    "CreateSalesContract"} => C24SparseRoundTrip(last.args[1])

\* a sales contract was just created over stored documents of all three kinds
C24_Witness ==
  /\ last.op = "CreateSalesContract"
  /\ last.err = NoErr
  /\ HasMA(ledger, last.args[1])
  /\ HasAA(ledger, last.args[1])
  /\ ledger[SCKey(last.args[1])] = last.args[2]

(***************************************************************************)
(* C25.  As stated: every call through Invoke or Query, except CreateUser  *)
(* and Setup, made with a certificate whose identity does not resolve      *)
(* (username or role missing, username blank, role no number or <= 0)      *)
(* returns an error before any workflow operation runs and writes nothing. *)
(* As the code has it: the same with GetCertAttribute excepted too, which  *)
(* Query answers before it resolves the caller.                            *)
(***************************************************************************)
\* the certificate resolves to no username or to no positive role code
C25Unresolved(cert) ==
  \/ "username" \notin DOMAIN cert
  \/ "role" \notin DOMAIN cert
  \/ TrimSpace(cert.username) = ""
  \/ Atoi(cert.role).err # NoErr
  \/ Atoi(cert.role).v <= 0

\* the errors of the identity checks
C25IdentityErrors ==
  { "Couldn't get attribute 'username'", "Couldn't get attribute 'role'",
    "strconv.Atoi: invalid syntax", "Invoke: Could not get username",
    "Invoke: Could not get affiliation" }

\* the step is a call of a function outside exempt with an unresolved
\* identity, and it is turned away by the identity checks with nothing done
C25TurnedAway(exempt) ==
  (last = NoCall /\ last' # NoCall /\ last'.op \notin exempt
     /\ C25Unresolved(last'.cert)) =>
    /\ last'.err \in C25IdentityErrors
    /\ last'.out = Nil
    /\ last'.wr = {}
    /\ ledger' = ledger
    /\ appended' = appended

C26TwoArgOps ==
  { "CreateMortgageApplication", "UpdateMortgageApplication",
    "CreateAppraiserApplication", "UpdateAppraiserApplication",
    "CreateSalesContract", "UpdateSalesContract" }

C26OneArgOps ==
  { "GetMortgageApplication", "GetAppraiserApplication", "GetSalesContract",
    "GetPropertyAd" }

C26_MissingArgumentsRejected ==
  [][(last = NoCall /\ last' # NoCall
        /\ \/ (last'.op \in C26TwoArgOps /\ Len(last'.args) < 2)
           \/ (last'.op \in C26OneArgOps /\ Len(last'.args) < 1)) =>
       /\ last'.err \notin {NoErr, Panic}
       /\ ledger' = ledger]_vars

(***************************************************************************)
(* C27.  No call crashes: for every function name and every argument       *)
(* array, the empty one included, Query and Invoke end by returning a      *)
(* result or an error, never in a run-time panic.                          *)
(***************************************************************************)
C27_NoCallPanics == last # NoCall => last.err # Panic

(***************************************************************************)
(* C28.  The query operations leave every ledger key unchanged, whether    *)
(* they succeed or fail and whether or not the caller's party record or    *)
(* the requested per-document log is stored already.                       *)
(***************************************************************************)
C28QueryOps ==
  { "GetMortgageApplication", "GetAppraiserApplication", "GetSalesContract",
    "GetPropertyAds", "GetPropertyAd", "GetMortgageApplications",
    "GetAppraiserApplications", "GetSalesContracts", "GetAuditorMALogs",
    "GetAuditorBCLogs" }

C28_QueriesWriteNothing ==
  [][(last = NoCall /\ last' # NoCall /\ last'.entry = "Query"
        /\ last'.op \in C28QueryOps) => ledger' = ledger]_vars

(***************************************************************************)
(* C29.  Documents of different kinds with the same id do not collide: the *)
(* operations on sales contract x and appraiser application x write none   *)
(* of the keys of mortgage application x, so the per-document audit log of *)
(* mortgage application x holds only entries made by operations on that    *)
(* mortgage application.                                                   *)
(***************************************************************************)
C29MAActions == {"CreateMortgageApplication", "UpdateMortgageApplication"}

C29_LogOfMAHoldsOnlyMAEntries ==
  \A d \in DocIds :
    HasMA(ledger, d) =>
      \A i \in DOMAIN MALogs(ledger, d) : MALogs(ledger, d)[i].Action \in C29MAActions

(***************************************************************************)
(* C30.  GetStateKey is a function of its inputs, returns the "Invalid     *)
(* type" error and no key for every kind code outside its table, and is    *)
(* injective on (kind, id): two different pairs with kinds of the table    *)
(* never give the same key.                                                *)
(***************************************************************************)
\* the kind codes GetStateKey has a prefix for
C30Table ==
  { MORTGAGEAPPLICATION, SALESCONTRACT, APPRAISERAPPLICATION, USER, BUYER, SELLER,
    BANK, APPRAISER, AUDITOR, LAND, PROPERTY, PROPERTYAD, MALOG }

\* GetStateKey has been applied to the pair in last.args
C30Applied == last.op = "GetStateKey" /\ last.err # Pending

C30_GetStateKeyInjective ==
  C30Applied =>
    /\ last.err = GetStateKey(last.args[1], last.args[2]).err
    /\ last.out = GetStateKey(last.args[1], last.args[2]).v
    /\ IF last.args[2] \in C30Table
         THEN /\ last.err = NoErr
              /\ \A id \in KeyIds : \A otype \in C30Table :
                   <<id, otype>> # last.args =>
                     GetStateKey(id, otype).v # last.out
         ELSE last.err = "Invalid type" /\ last.out = ""

\* the key of the mortgage application with id log:d1 has been built, which
\* begins like the keys of the per-document logs
C30_Witness ==
  /\ C30Applied
  /\ last.args = <<"log:d1", MORTGAGEAPPLICATION>>
  /\ last.out = "ma:log:d1"
  /\ GetStateKey("d1", MALOG).v = "malog:d1"

(***************************************************************************)
(* C22.  Two CreateSalesContract calls by two different buyers that name   *)
(* the same seller, each run as a whole and in either order, leave both    *)
(* new ids in the seller's salesContracts list.                            *)
(***************************************************************************)
\* x occurs in the list s
C22In(x, s) == \E i \in DOMAIN s : s[i] = x

\* contract id1 is stored as created by another buyer than b, naming seller
C22Earlier(led, id1, b, seller) ==
  /\ HasSC(led, id1)
  /\ StoredSC(led, id1).SellerId = seller
  /\ StoredSC(led, id1).BuyerId \in Buyers \ {b}

C22_BothContractsFiled ==
  [][(last = NoCall /\ last'.op = "CreateSalesContract" /\ last'.err = NoErr) =>
       \A id1 \in ContractIds \ {last'.args[1]} :
         C22Earlier(ledger, id1, last'.caller, last'.args[2].sellerId) =>
           /\ C22In(id1, SalesContractsOf(ledger', last'.args[2].sellerId))
           /\ C22In(last'.args[1], SalesContractsOf(ledger', last'.args[2].sellerId))]_vars

\* u5 has created d2 after u1 created d1, both naming seller u3
C22_Witness ==
  /\ last.op = "CreateSalesContract"
  /\ last.err = NoErr
  /\ last.caller = "u5"
  /\ last.args[1] = "d2"
  /\ HasSC(ledger, "d1")
  /\ StoredSC(ledger, "d1").BuyerId = "u1"
  /\ StoredSC(ledger, "d1").SellerId = "u3"
  /\ StoredSC(ledger, "d2").SellerId = "u3"
  /\ SalesContractsOf(ledger, "u3") = <<"d1", "d2">>

(***************************************************************************)
(* C23.  When the reads and writes of two CreateSalesContract calls        *)
(* interleave, a list both calls append to is read, extended and written   *)
(* whole by each: a write stores what its call read plus that call's own   *)
(* element, whatever the other call has stored since the read, so that     *)
(* both calls can complete while the list holds only one of the two        *)
(* appended elements (the last writer wins), and never holds neither.      *)
(***************************************************************************)
\* call p makes the step named step
C23Steps(p, step) ==
  /\ ~Done(running[p])
  /\ Steps[running[p].pc] = step
  /\ running'[p].pc = running[p].pc + 1

\* what the two calls can leave in a list they both append to
C23Outcomes(e1, e2) == {<<e1>>, <<e2>>, <<e1, e2>>, <<e2, e1>>}

\* both calls have returned
C23BothDone == running # <<>> /\ \A p \in DOMAIN running : Done(running[p])

C23_LastWriterWins ==
  [][/\ \A p \in DOMAIN running :
          /\ C23Steps(p, "SaveSeller") =>
                SalesContractsOf(ledger', "u3") =
                  Append(running[p].held.SalesContracts, running[p].args[1])
          /\ C23Steps(p, "SaveBank") =>
                SalesContractsOf(ledger', "u2") =
                  Append(running[p].held.SalesContracts, running[p].args[1])
          /\ C23Steps(p, "AddKeyWrite") =>
                UnmarshalList(Stored(ledger', maKeysName)) =
                  Append(running[p].held,
                         GetStateKey(running[p].args[1], SALESCONTRACT).v)
     /\ C23BothDone' =>
          /\ SalesContractsOf(ledger', "u3") \in C23Outcomes("d1", "d2")
          /\ SalesContractsOf(ledger', "u2") \in C23Outcomes("d1", "d2")
          /\ UnmarshalList(Stored(ledger', maKeysName)) \in
               C23Outcomes(GetStateKey("d1", SALESCONTRACT).v,
                           GetStateKey("d2", SALESCONTRACT).v)]_vars

\* both calls have returned, both contracts are stored, and the seller's
\* list holds only the second contract while the bank's list holds both
C23_Witness ==
  /\ C23BothDone
  /\ GetStateKey("d1", SALESCONTRACT).v \in DOMAIN ledger
  /\ GetStateKey("d2", SALESCONTRACT).v \in DOMAIN ledger
  /\ SalesContractsOf(ledger, "u3") = <<"d2">>
  /\ SalesContractsOf(ledger, "u2") = <<"d1", "d2">>


(***************************************************************************)
(* C31.  Setup is an idempotent overwrite: it returns no error, the keys   *)
(* it writes and what it stores under them are the same whatever the       *)
(* ledger held, running it again on the ledger it left changes nothing,    *)
(* and every other key (documents, party records, their registries and     *)
(* the audit logs) keeps what it held.                                     *)
(***************************************************************************)
\* the ledger Setup leaves when run once on an empty ledger
C31Once == Setup(StubOn([k \in {} |-> Nil]), <<>>).st.led

\* the keys of the documents, party records, registries and logs
C31Others ==
  {maKeysName, scKeysName, aaKeysName, maLogKeysName, bcLogsKey} \cup
  {GetStateKey(id, otype).v :
     id \in {"d1", "d2", "u1", "u2", "u3", "u4", "u5", "u6"},
     otype \in {MORTGAGEAPPLICATION, APPRAISERAPPLICATION, SALESCONTRACT,
                USER, MALOG}}

C31_SetupIdempotentOverwrite ==
  [][(last = NoCall /\ last' # NoCall /\ last'.entry = "Invoke" /\ last'.op = "Setup") =>
       /\ last'.err = NoErr
       /\ DOMAIN ledger' = DOMAIN ledger \cup DOMAIN C31Once
       /\ \A k \in DOMAIN C31Once : ledger'[k] = C31Once[k]
       /\ \A k \in DOMAIN ledger \ DOMAIN C31Once : ledger'[k] = ledger[k]
       /\ DOMAIN C31Once \cap C31Others = {}
       /\ \A k \in C31Others : Stored(ledger', k) = Stored(ledger, k)
       /\ Setup(StubOn(ledger'), last'.args).st.led = ledger']_vars

\* Setup has just run on a ledger that holds a mortgage application, the
\* records of its parties and audit entries
C31_Witness ==
  /\ last # NoCall
  /\ last.entry = "Invoke"
  /\ last.op = "Setup"
  /\ last.err = NoErr
  /\ GetStateKey("d1", MORTGAGEAPPLICATION).v \in DOMAIN ledger
  /\ bcLogsKey \in DOMAIN ledger
  /\ propertyAdKeysName \in DOMAIN ledger


(***************************************************************************)
(* C32.  Whenever UpdateAppraiserApplication returns an error, the stored  *)
(* appraiser application is the same as before the call.                   *)
(***************************************************************************)
C32_FailedUpdateKeepsAppraiserApplication ==
  [][(last = NoCall /\ last' # NoCall /\ last'.op = "UpdateAppraiserApplication" /\
      last'.err # NoErr) =>
       Stored(ledger', AAKey(last'.args[1])) = Stored(ledger, AAKey(last'.args[1]))]_vars


(***************************************************************************)
(* C33.  CreateMortgageApplication, CreateAppraiserApplication and         *)
(* CreateSalesContract, given a body that does not parse as the document   *)
(* type, return an error without having written any ledger key.            *)
(***************************************************************************)
C33CreateOps ==
  {"CreateMortgageApplication", "CreateAppraiserApplication", "CreateSalesContract"}

C33_UnparseableBodyWritesNothing ==
  [][(last = NoCall /\ last' # NoCall /\ last'.op \in C33CreateOps /\
      Len(last'.args) >= 2 /\ ParseFails(last'.args[2])) =>
       /\ last'.err # NoErr
       /\ last'.wr = {}
       /\ ledger' = ledger]_vars


(***************************************************************************)
(* C34.  For a document id under which nothing is stored, the three Get    *)
(* operations of a single document and the three Update operations return  *)
(* an error for every caller, an Auditor included, return no document and  *)
(* write no ledger key.                                                    *)
(***************************************************************************)
\* the key of the document an operation is about
C34KeyOf(op, id) ==
  IF op \in {"GetMortgageApplication", "UpdateMortgageApplication"} THEN MAKey(id)
  ELSE IF op \in {"GetAppraiserApplication", "UpdateAppraiserApplication"} THEN AAKey(id)
  ELSE SCKey(id)

C34Ops ==
  {"GetMortgageApplication", "UpdateMortgageApplication", "GetAppraiserApplication",
   "UpdateAppraiserApplication", "GetSalesContract", "UpdateSalesContract"}

C34_AbsentDocumentIsAnError ==
  [][(last = NoCall /\ last' # NoCall /\ last'.op \in C34Ops /\ Len(last'.args) >= 1 /\
      C34KeyOf(last'.op, last'.args[1]) \notin DOMAIN ledger) =>
       /\ last'.err # NoErr
       /\ last'.out = Nil
       /\ last'.wr = {}
       /\ ledger' = ledger]_vars

\* an Auditor has asked for mortgage application d1, which is not stored
\* while sales contract d1 is, and got an error
C34_Witness ==
  /\ last.op = "GetMortgageApplication"
  /\ last.role = AUDITOR_A
  /\ last.args = <<"d1">>
  /\ MAKey("d1") \notin DOMAIN ledger
  /\ SCKey("d1") \in DOMAIN ledger
  /\ last.err # NoErr


(***************************************************************************)
(* C35.  Referential integrity of the party lists: in every state, the     *)
(* states between the ledger writes of one Create call included, every id  *)
(* in a party record's mortgageApplications, salesContracts or             *)
(* appraiserApplications list is the id of a document of that kind stored  *)
(* in the ledger.                                                          *)
(***************************************************************************)
\* the ids the record under key k lists in its list named by field
C35Listed(led, k, field) ==
  LET l == Fld(led[k], field, <<>>) IN {l[i] : i \in DOMAIN l}

\* a document is stored under key k
C35Document(led, k) == k \in DOMAIN led /\ ~ParseFails(led[k])

\* the keys of the party records
C35Parties == {GetStateKey(u, USER).v : u \in {"u1", "u2", "u3", "u4", "u5", "u6"}}

C35_ListedDocumentsAreStored ==
  \A k \in C35Parties \cap DOMAIN ledger :
    /\ \A id \in C35Listed(ledger, k, "mortgageApplications") :
         C35Document(ledger, MAKey(id))
    /\ \A id \in C35Listed(ledger, k, "salesContracts") :
         C35Document(ledger, SCKey(id))
    /\ \A id \in C35Listed(ledger, k, "appraiserApplications") :
         C35Document(ledger, AAKey(id))


(***************************************************************************)
(* C36.  Every id in a party's list is a document the party may read: in   *)
(* every state reached by successful operations, GetMortgageApplications   *)
(* by a Buyer or Bank and GetSalesContracts by a Buyer, Seller or Bank     *)
(* succeed and return one document for each id of the caller's list.       *)
(***************************************************************************)
\* the callers that hold lists: the buyers, the sellers and the bank
C36Callers ==
  {<<"u1", BUYER_A>>, <<"u5", BUYER_A>>, <<"u3", SELLER_A>>, <<"u6", SELLER_A>>,
   <<"u2", BANK_A>>}

\* the listing succeeded with n documents
C36Lists(r, n) == r.err = NoErr /\ Len(UnmarshalList(r.v)) = n

C36_ListedDocumentsAreReadable ==
  \A cert \in C36Callers :
    /\ C36Lists(GetSalesContracts(Stub, cert[1], cert[2], <<>>),
                Len(SalesContractsOf(ledger, cert[1])))
    /\ cert[2] \in {BUYER_A, BANK_A} =>
         C36Lists(GetMortgageApplications(Stub, cert[1], cert[2], <<>>),
                  Len(Fld(Stored(ledger, GetStateKey(cert[1], USER).v),
                          "mortgageApplications", <<>>)))


(***************************************************************************)
(* C37.  No Update operation changes the fields that decide who may read   *)
(* or update a document (id, buyerId and reviewerId of a mortgage          *)
(* application; id, appraiserId, reviewerId and mortgageApplicationId of   *)
(* an appraiser application; id, buyerId, sellerId and reviewerId of a     *)
(* sales contract), and none writes a party record or a registry.          *)
(***************************************************************************)
C37UpdateOps ==
  {"UpdateMortgageApplication", "UpdateAppraiserApplication", "UpdateSalesContract"}

\* the fields of the stored documents that the access conditions read
C37Parties(led, d) ==
  << IF MAKey(d) \in DOMAIN led
       THEN <<StoredMA(led, d).ID, StoredMA(led, d).BuyerId, StoredMA(led, d).ReviewerId>>
       ELSE <<>>,
     IF AAKey(d) \in DOMAIN led
       THEN <<StoredAA(led, d).ID, StoredAA(led, d).AppraiserId,
              StoredAA(led, d).ReviewerId, StoredAA(led, d).MortgageApplicationId>>
       ELSE <<>>,
     IF SCKey(d) \in DOMAIN led
       THEN <<StoredSC(led, d).ID, StoredSC(led, d).BuyerId, StoredSC(led, d).SellerId,
              StoredSC(led, d).ReviewerId>>
       ELSE <<>> >>

\* the keys of the party records and of the registries
C37Kept == C35Parties \cup {maKeysName, scKeysName, aaKeysName}

C37_UpdatesKeepParties ==
  [][(last = NoCall /\ last' # NoCall /\ last'.op \in C37UpdateOps) =>
       /\ \A d \in DocIds : C37Parties(ledger', d) = C37Parties(ledger, d)
       /\ last'.wr \cap C37Kept = {}
       /\ \A k \in C37Kept : Stored(ledger', k) = Stored(ledger, k)]_vars

\* the appraiser has just updated appraiser application d1, and the update
\* reached mortgage application d1 as well
C37_Witness ==
  /\ last.op = "UpdateAppraiserApplication"
  /\ last.err = NoErr
  /\ AAKey("d1") \in last.wr
  /\ MAKey("d1") \in last.wr
  /\ StoredAA(ledger, "d1").FairMarketValue = 7
  /\ StoredMA(ledger, "d1").FairMarketValue = 7


(***************************************************************************)
(* C38.  With every operation executed as a whole and no failing ledger    *)
(* write, in every state the global audit log is as long as the            *)
(* per-document logs together, and the log of each document id is the      *)
(* subsequence of the global log made of the entries carrying that id.     *)
(***************************************************************************)
\* the lengths of the per-document logs of the ids in S, added up
RECURSIVE C38Sum(_, _)
C38Sum(led, S) ==
  IF S = {} THEN 0
  ELSE LET d == CHOOSE x \in S : TRUE
       IN Len(MALogs(led, d)) + C38Sum(led, S \ {d})

\* the entries of the global log that carry id d
C38Carrying(led, d) ==
  SelectSeq(BCLogs(led), LAMBDA e : e.MortgageApplicationId = d)

C38_LogsAgree ==
  /\ Len(BCLogs(ledger)) = C38Sum(ledger, ContractIds)
  /\ \A d \in ContractIds : MALogs(ledger, d) = C38Carrying(ledger, d)

\* the appraiser has updated appraiser application d2, which reached
\* mortgage application d1: the global log holds entries of d1 around
\* entries of d2
C38_Witness ==
  /\ last.op = "UpdateAppraiserApplication"
  /\ last.err = NoErr
  /\ last.args[1] = "d2"
  /\ Len(MALogs(ledger, "d1")) >= 2
  /\ Len(MALogs(ledger, "d2")) >= 2
  /\ \E i, j, k \in DOMAIN BCLogs(ledger) :
       /\ i < j /\ j < k
       /\ BCLogs(ledger)[i].MortgageApplicationId = "d1"
       /\ BCLogs(ledger)[j].MortgageApplicationId = "d2"
       /\ BCLogs(ledger)[k].MortgageApplicationId = "d1"


(***************************************************************************)
(* C39.  In the legacy variant, after a successful CreateSalesContract     *)
(* with pairwise distinct seller, buyer and bank, the record under the     *)
(* bank's key lists the new contract id, and the record under the seller's *)
(* key is still the seller's record, listing the seller's earlier contract *)
(* ids followed by the new one.                                            *)
(***************************************************************************)
\* the call that has just returned: the id, the buyer, the seller, the bank
C39Created ==
  /\ last = NoCall
  /\ last' # NoCall
  /\ last'.op = "CreateSalesContract"
  /\ last'.err = NoErr
  /\ Cardinality({last'.caller, last'.args[2].sellerId, last'.args[2].reviewerId}) = 3

C39_LegacyBankAndSellerListed ==
  [][C39Created =>
       LET id == last'.args[1]
           userKey == GetStateKey(last'.args[2].sellerId, USER).v
       IN /\ C22In(id, SalesContractsOf(ledger', last'.args[2].reviewerId))
          /\ Stored(ledger', userKey).id = userKey
          /\ Stored(ledger', userKey).affiliation = SELLER_A
          /\ SalesContractsOf(ledger', last'.args[2].sellerId) =
               Append(SalesContractsOf(ledger, last'.args[2].sellerId), id)]_vars

====
